---- MODULE Spec2Model ----
(***************************************************************************)
(* Journal crawling and metadata-extraction pipeline                       *)
(* (src/scrap_journal/journal_crawler_v3.py).                              *)
(*                                                                         *)
(* Python strings are modelled as sequences of one-character strings, so   *)
(* that the regular-expression substitutions, the splits and the           *)
(* formatting of the source are computed character by character.  Python   *)
(* None is the empty sequence (both are falsy in "a or b or 'pdf'").       *)
(* Python indices are 0-based, the sequences here are 1-based.             *)
(***************************************************************************)
EXTENDS Integers, Sequences, FiniteSets, TLC

(***************************************************************************)
(* Bounds of the model                                                     *)
(***************************************************************************)
\* Largest number of fragments of one kind on a page of the "layout" site.
MaxTopics == 2
\* Number of articles on the page of the "bulk" site (more than max_workers).
PoolTasks == 9
\* Length of the over-long title (longer than the truncation length).
LongLen == 205

(***************************************************************************)
(* Program constants                                                       *)
(***************************************************************************)
\* main: max_workers = 8
max_workers == 8
\* sanitize_filename: "if len(sanitized) > 100"
SanitizeThreshold == 100
\* sanitize_filename: "sanitized[:200]"
SanitizeKeep == 200

(***************************************************************************)
(* String literals                                                         *)
(***************************************************************************)
EmptyStr == <<>>
NoneVal == <<>>

PdfExt ==
    <<"p","d","f">>
DocxExt ==
    <<"d","o","c","x">>
OriginalResearch ==
    <<"O","r","i","g","i","n","a","l"," ","R","e","s","e","a","r","c","h">>
CtPdf ==
    <<"a","p","p","l","i","c","a","t","i","o","n","/","p","d","f">>
CtWordml ==
    <<"a","p","p","l","i","c","a","t","i","o","n","/","v","n","d",".","o","p","e","n","x","m","l","f","o","r","m","a","t","s","-","o","f","f","i","c","e","d","o","c","u","m","e","n","t",".","w","o","r","d","p","r","o","c","e","s","s","i","n","g","m","l",".","d","o","c","u","m","e","n","t">>
CtMsword ==
    <<"a","p","p","l","i","c","a","t","i","o","n","/","m","s","w","o","r","d">>
CtHtml ==
    <<"t","e","x","t","/","h","t","m","l">>
CtPdfUpper ==
    <<"A","p","p","l","i","c","a","t","i","o","n","/","P","D","F",";"," ","c","h","a","r","s","e","t","=","b","i","n","a","r","y">>
HttpPrefix ==
    <<"h","t","t","p">>

UpperCase ==
    <<"A","B","C","D","E","F","G","H","I","J","K","L","M","N","O","P","Q","R","S","T","U","V","W","X","Y","Z">>
LowerCase ==
    <<"a","b","c","d","e","f","g","h","i","j","k","l","m","n","o","p","q","r","s","t","u","v","w","x","y","z">>
DigitChars ==
    <<"0","1","2","3","4","5","6","7","8","9">>

\* Characters deleted by the first substitution of sanitize_filename.
InvalidChars ==
    {"\\", "/", "(", ")", ".", ",", "*", "?", ":", "\"", "<", ">", "|"}
\* Characters matched by \s.
Whitespace == {" ", "\t", "\n", "\r"}

(***************************************************************************)
(* Python string primitives                                                *)
(***************************************************************************)
Max(S) == CHOOSE x \in S : \A y \in S : y <= x
Min(S) == CHOOSE x \in S : \A y \in S : x <= y

\* str.lower() on one character
LowerChar(c) ==
    IF \E k \in 1..Len(UpperCase) : UpperCase[k] = c
    THEN LowerCase[CHOOSE k \in 1..Len(UpperCase) : UpperCase[k] = c]
    ELSE c

\* str.lower()
Lower(s) == [k \in 1..Len(s) |-> LowerChar(s[k])]

\* "sub in s"
Contains(s, sub) ==
    \E k \in 0..(Len(s) - Len(sub)) : SubSeq(s, k + 1, k + Len(sub)) = sub

\* s.startswith(p)
StartsWith(s, p) == Len(s) >= Len(p) /\ SubSeq(s, 1, Len(p)) = p

\* s.find(c) + 1 and s.rfind(c) + 1 (0 when c does not occur)
Find(s, c) ==
    IF \E k \in 1..Len(s) : s[k] = c
    THEN Min({k \in 1..Len(s) : s[k] = c}) ELSE 0
RFind(s, c) ==
    IF \E k \in 1..Len(s) : s[k] = c
    THEN Max({k \in 1..Len(s) : s[k] = c}) ELSE 0

\* s[:n]
Take(s, n) == SubSeq(s, 1, IF n < Len(s) THEN n ELSE Len(s))
\* s[n:]  (n is the 0-based start)
Drop(s, n) == SubSeq(s, n + 1, Len(s))

\* Positions of the '/' separators of s, and '/'.join(s.split('/')[:n])
SlashJoinFirst(s, n) ==
    LET seps == {k \in 1..Len(s) : s[k] = "/"}
    IN  IF Cardinality(seps) < n THEN s
        ELSE Take(s, (CHOOSE k \in seps :
                         Cardinality({j \in seps : j <= k}) = n) - 1)
\* '/'.join(s.split('/')[:-1])
SlashJoinButLast(s) ==
    IF RFind(s, "/") = 0 THEN EmptyStr ELSE Take(s, RFind(s, "/") - 1)

\* re.sub(r'[\\/().,*?:"<>|]', "", s)
IsValidChar(c) == c \notin InvalidChars
DeleteInvalid(s) == SelectSeq(s, IsValidChar)

\* re.sub(r'\s+', rep, s): every maximal run of whitespace becomes one rep.
\* A whitespace character followed by another one is dropped ("" marks it),
\* the last one of a run is replaced.
IsKept(c) == c # ""
ReplaceWhitespaceRuns(s, rep) ==
    SelectSeq([k \in 1..Len(s) |->
                  IF s[k] \notin Whitespace THEN s[k]
                  ELSE IF k < Len(s) /\ s[k + 1] \in Whitespace THEN ""
                  ELSE rep],
              IsKept)

CollapseWhitespace(s) == ReplaceWhitespaceRuns(s, "_")

\* str(n) for n >= 0
RECURSIVE DecimalDigits(_)
DecimalDigits(n) ==
    IF n < 10 THEN <<DigitChars[n + 1]>>
    ELSE DecimalDigits(n \div 10) \o <<DigitChars[(n % 10) + 1]>>

\* f"{n}": no padding
Format02dUnpadded(n) == DecimalDigits(n)

\* f"{n:02d}"
Format02d(n) ==
    IF n < 10 THEN <<"0">> \o DecimalDigits(n) ELSE DecimalDigits(n)

\* os.path.join(a, b) (posixpath)
PathJoin(a, b) ==
    IF StartsWith(b, <<"/">>) THEN b
    ELSE IF a = <<>> \/ a[Len(a)] = "/" THEN a \o b
    ELSE a \o <<"/">> \o b

\* os.path.splitext(p) (posixpath): <<root, ext>>
SplitExt(p) ==
    LET sepIndex == RFind(p, "/")
        dotIndex == RFind(p, ".")
    IN  IF dotIndex > sepIndex
           /\ \E k \in (sepIndex + 1)..(dotIndex - 1) : p[k] # "."
        THEN <<Take(p, dotIndex - 1), Drop(p, dotIndex - 1)>>
        ELSE <<p, EmptyStr>>

(***************************************************************************)
(* Helpers of the crawler                                                  *)
(***************************************************************************)
\* sanitize_filename as in the first draft (src/journal_crawler.py): fewer
\* characters are deleted and an ellipsis is appended.
sanitize_filename_draft(filename) ==
    LET Del(t) == SelectSeq(t, LAMBDA c : c \notin (InvalidChars \ {"(", ")", ".", ","}))
        sanitized == CollapseWhitespace(Del(filename))
    IN  IF Len(sanitized) > SanitizeThreshold
        THEN Take(sanitized, 97) \o <<".", ".", ".">>
        ELSE sanitized

sanitize_filename(filename) ==
    LET sanitized == CollapseWhitespace(DeleteInvalid(filename))
    IN  IF Len(sanitized) > SanitizeThreshold
        THEN Take(sanitized, SanitizeKeep)
        ELSE sanitized

get_file_extension_from_url(url) ==
    LET q    == Find(url, "?")
        path == IF q = 0 THEN url ELSE Take(url, q - 1)
        ext  == Lower(Drop(path, RFind(path, ".")))
    IN  IF RFind(path, ".") # 0 /\ ext \in {PdfExt, DocxExt}
        THEN ext ELSE NoneVal

\* A table that gives application/msword the extension of the old format.
get_file_extension_from_content_type_doc(content_type) ==
    LET ct == Lower(content_type)
    IN  IF content_type = EmptyStr THEN NoneVal
        ELSE IF Contains(ct, CtPdf) THEN PdfExt
        ELSE IF Contains(ct, CtWordml) THEN DocxExt
        ELSE IF Contains(ct, CtMsword) THEN <<"d", "o", "c">>
        ELSE NoneVal

get_file_extension_from_content_type(content_type) ==
    LET ct == Lower(content_type)
    IN  IF content_type = EmptyStr THEN NoneVal
        ELSE IF Contains(ct, CtPdf) THEN PdfExt
        ELSE IF Contains(ct, CtWordml) THEN DocxExt
        ELSE IF Contains(ct, CtMsword) THEN DocxExt
        ELSE NoneVal

\* extract_abstract on a tag-free value: runs of whitespace become one
\* space and the ends are stripped.
CollapseToSpace(s) == ReplaceWhitespaceRuns(s, " ")

extract_abstract(input_value) ==
    LET t == CollapseToSpace(input_value)
        a == IF t # <<>> /\ Head(t) = " " THEN Tail(t) ELSE t
    IN  IF a # <<>> /\ a[Len(a)] = " " THEN Take(a, Len(a) - 1) ELSE a

\* Line 78 with the preference reversed: url_ext or content_ext or 'pdf'.
ResolveExtensionUrlFirst(content_type, url) ==
    LET url_ext     == get_file_extension_from_url(url)
        content_ext == get_file_extension_from_content_type(content_type)
    IN  IF url_ext # NoneVal THEN url_ext
        ELSE IF content_ext # NoneVal THEN content_ext
        ELSE PdfExt

\* The extension chosen by download_file (line 78).
ResolveExtension(content_type, url) ==
    LET url_ext     == get_file_extension_from_url(url)
        content_ext == get_file_extension_from_content_type(content_type)
    IN  IF content_ext # NoneVal THEN content_ext
        ELSE IF url_ext # NoneVal THEN url_ext
        ELSE PdfExt

\* The save path after the extension update of download_file (lines 81-83).
RewritePath(save_path, file_ext) ==
    LET base_path == SplitExt(save_path)[1]
        old_ext   == SplitExt(save_path)[2]
    IN  IF Lower(old_ext) # <<".">> \o file_ext
        THEN base_path \o <<".">> \o file_ext
        ELSE save_path

\* A response of the remote site to a download request: the request raises
\* (status "conn_error"), raise_for_status raises (status "http_error"), or
\* the headers arrive (status "ok") and writing the body ends well (io "ok")
\* or raises (io "write_error").
Response(status, content_type, io) ==
    [status |-> status, content_type |-> content_type, io |-> io]

NoResult ==
    [success |-> FALSE, path |-> EmptyStr, url |-> EmptyStr,
     extension |-> NoneVal, error |-> "none"]

\* A helper whose handler reports the path it was called with.
download_file_given_path(url, save_path, resp) ==
    IF resp.status = "ok" /\ resp.io = "ok"
    THEN [success |-> TRUE,
          path |-> RewritePath(save_path, ResolveExtension(resp.content_type, url)),
          url |-> url, extension |-> ResolveExtension(resp.content_type, url),
          error |-> "none"]
    ELSE [success |-> FALSE, path |-> save_path, url |-> url,
          extension |-> NoneVal,
          error |-> IF resp.status # "ok" THEN resp.status ELSE resp.io]

\* download_file(url, save_path, session), given the response of the site.
download_file(url, save_path, resp) ==
    IF resp.status # "ok"
    THEN [success |-> FALSE, path |-> save_path, url |-> url,
          extension |-> NoneVal, error |-> resp.status]
    ELSE LET file_ext == ResolveExtension(resp.content_type, url)
             new_path == RewritePath(save_path, file_ext)
         IN  IF resp.io # "ok"
             THEN [success |-> FALSE, path |-> new_path, url |-> url,
                   extension |-> NoneVal, error |-> resp.io]
             ELSE [success |-> TRUE, path |-> new_path, url |-> url,
                   extension |-> file_ext, error |-> "none"]

(***************************************************************************)
(* Metadata miner: lines 173-231                                           *)
(***************************************************************************)
KeywordLit ==
    <<"k","e","y","w","o","r","d">>
KeyLit ==
    <<"k","e","y">>
WordLit ==
    <<"w","o","r","d">>
IndexingTermsLit ==
    <<"i","n","d","e","x","i","n","g"," ","t","e","r","m","s">>
NlAbstractLit ==
    <<"\n","a","b","s","t","r","a","c","t">>
NlIntroductionLit ==
    <<"\n","i","n","t","r","o","d","u","c","t","i","o","n">>
CommaSpace ==
    <<",", " ">>

\* s.strip()
Strip(s) ==
    LET inked == {k \in 1..Len(s) : s[k] \notin Whitespace}
    IN  IF inked = {} THEN EmptyStr ELSE SubSeq(s, Min(inked), Max(inked))

\* [A-Z] under re.IGNORECASE: any letter
IsLetter(c) == \E k \in 1..Len(UpperCase) : UpperCase[k] = c \/ LowerCase[k] = c

\* \s* from position i: the position of the first character that is not
\* whitespace (Len(s) + 1 when there is none)
SkipSpaces(s, i) ==
    LET rest == {k \in i..Len(s) : s[k] \notin Whitespace}
    IN  IF rest = {} THEN Len(s) + 1 ELSE Min(rest)

\* the literal lit stands in s at position i
HasAt(s, i, lit) ==
    /\ i >= 1
    /\ i + Len(lit) - 1 <= Len(s)
    /\ SubSeq(s, i, i + Len(lit) - 1) = lit

\* keywords?\s*: matched at position i of s: the position after the colon,
\* 0 when it does not match there
KeywordsIntro(s, i) ==
    IF ~HasAt(s, i, KeywordLit) THEN 0
    ELSE LET a == i + Len(KeywordLit)
             b == IF HasAt(s, a, <<"s">>) THEN a + 1 ELSE a
             c == SkipSpaces(s, b)
         IN  IF HasAt(s, c, <<":">>) THEN c + 1 ELSE 0

\* key\s+words?\s*:
KeyWordsIntro(s, i) ==
    IF ~HasAt(s, i, KeyLit) THEN 0
    ELSE LET a == i + Len(KeyLit)
             b == SkipSpaces(s, a)
         IN  IF b = a \/ ~HasAt(s, b, WordLit) THEN 0
             ELSE LET c == b + Len(WordLit)
                      d == IF HasAt(s, c, <<"s">>) THEN c + 1 ELSE c
                      e == SkipSpaces(s, d)
                  IN  IF HasAt(s, e, <<":">>) THEN e + 1 ELSE 0

\* indexing terms\s*:
IndexingTermsIntro(s, i) ==
    IF ~HasAt(s, i, IndexingTermsLit) THEN 0
    ELSE LET c == SkipSpaces(s, i + Len(IndexingTermsLit))
         IN  IF HasAt(s, c, <<":">>) THEN c + 1 ELSE 0

\* Lines 194-198: keyword_patterns[p - 1], up to its colon
Intro(p, s, i) ==
    IF p = 1 THEN KeywordsIntro(s, i)
    ELSE IF p = 2 THEN KeyWordsIntro(s, i)
    ELSE IndexingTermsIntro(s, i)

\* (?:\n\n|\n[A-Z]|\nabstract|\nintroduction) at position q, matched with
\* re.IGNORECASE
Terminator(s, q) ==
    \/ HasAt(s, q, <<"\n", "\n">>)
    \/ HasAt(s, q, <<"\n">>) /\ q + 1 <= Len(s) /\ IsLetter(s[q + 1])
    \/ HasAt(s, q, NlAbstractLit)
    \/ HasAt(s, q, NlIntroductionLit)

\* Line 202: re.search(pattern, s, re.DOTALL | re.IGNORECASE): the leftmost
\* position where the pattern matches; group 1 is (.+?), the shortest run of
\* at least one character before a terminator.
BlockFor(p, s) ==
    LET ends(i) == {q \in (Intro(p, s, i) + 1)..Len(s) : Terminator(s, q)}
        starts == {i \in 1..Len(s) : Intro(p, s, i) > 0 /\ ends(i) # {}}
    IN  IF starts = {} THEN [found |-> FALSE, group |-> EmptyStr]
        ELSE [found |-> TRUE,
              group |-> SubSeq(s, Intro(p, s, Min(starts)),
                               Min(ends(Min(starts))) - 1)]

\* re.split(r'[,;]\s*|\n', s) when newline, re.split(r'[,;]\s*', s) otherwise
RECURSIVE SplitOn(_, _, _, _, _)
SplitOn(s, i, cur, acc, newline) ==
    IF i > Len(s) THEN Append(acc, cur)
    ELSE IF s[i] \in {",", ";"}
    THEN SplitOn(s, SkipSpaces(s, i + 1), <<>>, Append(acc, cur), newline)
    ELSE IF newline /\ s[i] = "\n"
    THEN SplitOn(s, i + 1, <<>>, Append(acc, cur), newline)
    ELSE SplitOn(s, i + 1, Append(cur, s[i]), acc, newline)

\* [kw.strip() for kw in keywords if kw.strip()]
NotBlank(s) == Strip(s) # EmptyStr
Cleaned(keywords) ==
    LET kept == SelectSeq(keywords, NotBlank)
    IN  [k \in 1..Len(kept) |-> Strip(kept[k])]

\* text.split('\n')
SplitLines(s) ==
    LET IsBreak(k) == k > 0
        nl == SelectSeq([k \in 1..Len(s) |-> IF s[k] = "\n" THEN k ELSE 0],
                        IsBreak)
    IN  [k \in 1..(Len(nl) + 1) |->
            SubSeq(s, IF k = 1 THEN 1 ELSE nl[k - 1] + 1,
                      IF k = Len(nl) + 1 THEN Len(s) ELSE nl[k] - 1)]

\* Line 218: re.search(r'keywords?\s*:', line.lower())
HasKeywordsIntro(line) ==
    \E i \in 1..Len(line) : KeywordsIntro(Lower(line), i) > 0

\* Lines 220-229: the body of the loop for line k; returns is FALSE when the
\* loop goes on to the next line.
LineKeywords(lines, k) ==
    LET line == lines[k]
        keywords_text == IF Find(line, ":") > 0
                         THEN Strip(Drop(line, Find(line, ":")))
                         ELSE EmptyStr
    IN  IF keywords_text # EmptyStr
        THEN [returns |-> TRUE,
              value |-> Cleaned(SplitOn(keywords_text, 1, <<>>, <<>>, FALSE))]
        ELSE IF k + 1 <= Len(lines) /\ Strip(lines[k + 1]) # EmptyStr
        THEN [returns |-> TRUE,
              value |-> Cleaned(SplitOn(Strip(lines[k + 1]), 1, <<>>, <<>>, FALSE))]
        ELSE [returns |-> FALSE, value |-> <<>>]

\* Lines 188-231: extract_keywords_from_text(text)
extract_keywords_from_text(text) ==
    LET text_lower == Lower(text)
        hits == {p \in 1..3 : BlockFor(p, text_lower).found}
        lines == SplitLines(text)
        found == {k \in 1..Len(lines) :
                     HasKeywordsIntro(lines[k]) /\ LineKeywords(lines, k).returns}
    IN  IF hits # {}
        THEN Cleaned(SplitOn(Strip(BlockFor(Min(hits), text_lower).group),
                             1, <<>>, <<>>, TRUE))
        ELSE IF found # {}
        THEN LineKeywords(lines, Min(found)).value
        ELSE <<>>

\* A loop that compares the addresses as they are spelled.
SeenBeforeExact(unique_emails, email) ==
    \E j \in 1..Len(unique_emails) : unique_emails[j] = email

\* Line 182: email.lower() in [e.lower() for e in unique_emails]
SeenBefore(unique_emails, email) ==
    \E j \in 1..Len(unique_emails) : Lower(unique_emails[j]) = Lower(email)

\* Lines 180-183: the loop over emails from its k-th element on
RECURSIVE UniqueEmails(_, _, _)
UniqueEmails(emails, k, unique_emails) ==
    IF k > Len(emails) THEN unique_emails
    ELSE UniqueEmails(emails, k + 1,
                      IF SeenBefore(unique_emails, emails[k])
                      THEN unique_emails
                      ELSE Append(unique_emails, emails[k]))

\* Lines 176-185: extract_emails_from_text, given emails, the matches of
\* re.findall(email_pattern, text) in the order of the text.
extract_emails_from_text(emails) == UniqueEmails(emails, 1, <<>>)

\* ", ".join(items)
RECURSIVE JoinCommaSpace(_)
JoinCommaSpace(items) ==
    IF items = <<>> THEN EmptyStr
    ELSE IF Len(items) = 1 THEN items[1]
    ELSE items[1] \o CommaSpace \o JoinCommaSpace(Tail(items))

\* Characters outside the printable ASCII range are written by name, one
\* string per character.
EAcute == "U+00E9"
EuroSign == "U+20AC"
StartOfHeading == "U+0001"
Quote == "\""
Backslash == "\\"

(***************************************************************************)
(* The environment: the operator's input and the remote site               *)
(***************************************************************************)
SoilTitle ==
    <<"S","o","i","l"," ","p","H"," ","E","f","f","e","c","t","s">>
NitrogenTitle ==
    <<"N","i","t","r","o","g","e","n"," ","S","t","u","d","y">>
AccentTitle ==
    <<"S","o","l"," ",EAcute,EuroSign>>
SpecialTitle ==
    <<"A","/","B",":"," ","(","x",")",",","\t","y","."," "," ","\"","z","\""," ","<","1",">","|","*","?"," ","\\","\\","n">>
\* A title of LongLen characters: "a.a a.a a. ..." cut to LongLen.
LongTitle ==
    [k \in 1..LongLen |-> IF k % 4 = 0 THEN " " ELSE IF k % 4 = 2 THEN "." ELSE "a"]
\* A title of LongLen characters none of which is deleted or replaced.
PlainLongTitle ==
    [k \in 1..LongLen |-> "b"]

\* url = input("Please Enter the URL: ")
PageUrl ==
    <<"h","t","t","p",":","/","/","x","/","v","/","i">>
\* str(Path.home() / "Downloads")
DownloadsDir ==
    <<"/","h","/","D">>
HrefAbsPdf ==
    <<"h","t","t","p",":","/","/","x","/","a",".","p","d","f">>
HrefRootDocx ==
    <<"/","b",".","d","o","c","x">>
HrefRelative ==
    <<"c">>
HrefDead ==
    <<"h","t","t","p",":","/","/","x","/","d">>
HrefAccent ==
    <<"h","t","t","p",":","/","/","x","/","c",".","p","d","f">>
HrefHttpDocs ==
    <<"h","t","t","p","d","o","c","s","/","a",".","p","d","f">>
HrefShared ==
    <<"h","t","t","p",":","/","/","x","/","s">>
HrefUpperPdf ==
    <<"h","t","t","p",":","/","/","x","/","A",".","P","D","F","?","v","=","1",".","2">>
HrefQueryDocx ==
    <<"h","t","t","p",":","/","/","x","/","g","?","f","=","a",".","d","o","c","x">>

Sites == {"layout", "files", "bulk", "live"}

\* folder = input("Please Enter folder name: ")
FoldersOf(s) ==
    IF s = "files" THEN {<<"v">>, <<"v", ".", "1">>} ELSE {<<"v">>}

\* The k-th fragment of a field list of the "layout" site.
Tagged(c, k) == <<c>> \o DecimalDigits(k)
LayoutTopicAt(k) ==
    IF k % 3 = 1 THEN SoilTitle ELSE IF k % 3 = 2 THEN NitrogenTitle ELSE SpecialTitle
LayoutHrefAt(k) ==
    IF k % 3 = 1 THEN HrefAbsPdf ELSE IF k % 3 = 2 THEN EmptyStr ELSE HrefRootDocx
LayoutAbstractAt(k) ==
    [id    |-> IF k % 3 = 2 THEN EmptyStr ELSE Tagged("i", k),
     value |-> IF k % 3 = 0 THEN EmptyStr ELSE <<" ", "x", " ", "\n">> \o Tagged("y", k)]

\* A fetched page: the text of the matched elements in document order
\* (soup.find_all(...)), before any filtering.
Page(topics, types, pages, authors, downloads, abstracts) ==
    [topics |-> topics, types |-> types, pages |-> pages, authors |-> authors,
     downloads |-> downloads, abstracts |-> abstracts]

\* A page without any matching element.
NoPage == Page(<<>>, <<>>, <<>>, <<>>, <<>>, <<>>)

FullAbstracts(n) == [k \in 1..n |-> [id |-> Tagged("i", k), value |-> Tagged("y", k)]]

LayoutPages ==
    { Page((IF lead = 1 THEN <<EmptyStr>> ELSE <<>>) \o [k \in 1..nt |-> LayoutTopicAt(k)],
           [k \in 1..ny |-> IF k = 2 THEN EmptyStr ELSE Tagged("t", k)],
           [k \in 1..np |-> Tagged("p", k)],
           [k \in 1..na |-> Tagged("a", k)],
           [k \in 1..nd |-> LayoutHrefAt(k)],
           [k \in 1..nb |-> LayoutAbstractAt(k)]) :
        lead \in 0..1, nt \in 0..MaxTopics, ny \in 0..MaxTopics, np \in 0..MaxTopics,
        na \in 0..MaxTopics, nd \in 0..MaxTopics, nb \in 0..MaxTopics }
    \cup { Page(<<SoilTitle>>, <<>>, <<>>, <<>>, <<EmptyStr>>,
                <<[id |-> Tagged("i", 1), value |-> EmptyStr],
                  [id |-> Tagged("i", 2), value |-> Tagged("y", 2)]>>) }

FilesPage(topics, downloads) ==
    Page(topics,
         [k \in 1..Len(topics) |-> Tagged("t", k)],
         [k \in 1..Len(topics) |-> Tagged("p", k)],
         [k \in 1..Len(topics) |-> Tagged("a", k)],
         downloads, FullAbstracts(Len(topics)))

FilesPages ==
    { FilesPage(<<SoilTitle, NitrogenTitle>>, <<HrefAbsPdf>>),
      FilesPage(<<SoilTitle, SoilTitle>>, <<HrefAbsPdf, HrefAbsPdf>>),
      FilesPage(<<SpecialTitle, PlainLongTitle>>, <<HrefRootDocx, HrefRelative>>),
      FilesPage(<<NitrogenTitle, LongTitle>>, <<HrefUpperPdf, HrefQueryDocx>>),
      FilesPage(<<SoilTitle, SoilTitle, SoilTitle>>, <<HrefShared, HrefShared, HrefShared>>),
      FilesPage(<<NitrogenTitle, SoilTitle, SoilTitle>>, <<EmptyStr, HrefAbsPdf, HrefRootDocx>>),
      FilesPage(<<AccentTitle, SpecialTitle>>, <<HrefAccent>>),
      FilesPage(<<SoilTitle>>, <<HrefHttpDocs>>) }

BulkPages ==
    { NoPage,
      FilesPage([k \in 1..PoolTasks |-> NitrogenTitle],
                [k \in 1..PoolTasks |-> IF k <= 2 THEN HrefAbsPdf ELSE HrefDead]) }

\* A page of five articles, the second one with a dead link and the third
\* one without a link.
LivePages ==
    { NoPage,
      FilesPage(<<NitrogenTitle, SoilTitle, NitrogenTitle, SoilTitle, SoilTitle>>,
                <<HrefAbsPdf, HrefDead, EmptyStr, HrefAbsPdf, HrefAbsPdf>>) }

PagesOf(s) ==
    IF s = "layout" THEN LayoutPages
    ELSE IF s = "files" THEN FilesPages
    ELSE IF s = "bulk" THEN BulkPages
    ELSE LivePages

\* Lines 121-122: the session has an adapter for http:// and for https://.
Mounted(url) ==
    \/ StartsWith(url, <<"h","t","t","p",":","/","/">>)
    \/ StartsWith(url, <<"h","t","t","p","s",":","/","/">>)

\* What the site can answer to a download request for url; session.get
\* raises for a URL no adapter is mounted for.
ResponsesFor(s, url) ==
    IF ~Mounted(url)
    THEN { Response("conn_error", EmptyStr, "ok") }
    ELSE IF s = "files" /\ url = HrefShared
    THEN { Response("ok", CtPdf, "ok"),
           Response("ok", CtWordml, "ok") }
    ELSE IF s = "files"
    THEN { Response("http_error", EmptyStr, "ok"),
           Response("ok", CtPdf, "ok"),
           Response("ok", CtPdfUpper, "ok"),
           Response("ok", CtWordml, "ok"),
           Response("ok", CtMsword, "ok"),
           Response("ok", CtHtml, "ok"),
           Response("ok", EmptyStr, "ok"),
           Response("ok", CtWordml, "write_error") }
    ELSE IF url = HrefAbsPdf
         THEN { Response("ok", CtPdf, "ok") }
         ELSE { Response("conn_error", EmptyStr, "ok") }

\* The text of a downloaded article and the addresses the email pattern
\* matches in it, in the order of the text.
ScenarioText ==
    <<"K","e","y","w","o","r","d","s",":"," ","s","o","i","l",","," ","n","i","t","r","o","g","e","n",","," ","p","H","\n","\n","A","b","s","t","r","a","c","t",":"," ","x">>
SingleLineText ==
    <<"K","e","y","w","o","r","d","s",":"," ","S","o","i","l",","," ","p","H">>
AccentText ==
    <<"K","e","y","w","o","r","d","s",":"," ","c","a","f",EAcute,","," ",StartOfHeading,"x",";"," ","\"","q","\"","\n","\n">>
ContinuedText ==
    <<"k","e","y","w","o","r","d","s",":"," ","s","o","i","l",",","\n","n","i","t","r","o","g","e","n","\n","\n","a","b","s","t","r","a","c","t",":"," ","x">>
EmailLower ==
    <<"a","@","b",".","i","o">>
EmailUpper ==
    <<"A","@","B",".","i","o">>
EmailOther ==
    <<"c","@","d",".","i","o">>

\* A downloaded file as the miner meets it. fault names where an exception is
\* raised while the file is handled: "extract" in pdfplumber or python-docx
\* (caught at 148 or 168), "process" in process_file_for_metadata (caught at
\* 257), "announce" in lines 489-490 and "report" in lines 499-500 of the
\* mining loop (both caught at 501); "none" when nothing is raised.
Document(fault, text, emails) ==
    [fault |-> fault, text |-> text, emails |-> emails]

\* What the file downloaded from url can turn out to be.
DocumentsFor(s, url) ==
    IF s = "files" /\ url = HrefAbsPdf
    THEN { Document("none", ScenarioText, <<EmailLower, EmailUpper, EmailOther>>),
           Document("extract", ScenarioText, <<EmailLower>>),
           Document("process", ScenarioText, <<EmailLower>>),
           Document("announce", ScenarioText, <<EmailLower>>),
           Document("report", ScenarioText, <<EmailLower>>) }
    ELSE IF s = "files" /\ url = SlashJoinFirst(PageUrl, 3) \o HrefRootDocx
    THEN { Document("none", SingleLineText, <<>>) }
    ELSE IF s = "files" /\ url = HrefAccent
    THEN { Document("none", AccentText, <<EmailLower>>),
           Document("none", ContinuedText,
                    <<EmailUpper, EmailOther, EmailLower, EmailOther, EmailUpper>>) }
    ELSE IF s = "live"
    THEN { Document("none", EmptyStr, <<>>),
           Document("extract", ScenarioText, <<EmailLower>>) }
    ELSE { Document("none", ScenarioText, <<EmailLower>>) }

FetchErrors == {"HTTPError", "ConnectionError", "Timeout", "RequestException"}

(***************************************************************************)
(* State                                                                   *)
(***************************************************************************)
VARIABLES
    site,                 \* the remote site of this run
    volume_dir,           \* main: volume_dir
    pc,                   \* position of the main thread in main()
    abort_reason,         \* why main() returned early ("" when it did not)
    page,                 \* the fetched page (raw fragments)
    all_fields,           \* all_topics, all_article_types, ... after extraction
    article,              \* locals of the correlation loop, one entry per iteration
    metadata,             \* main: metadata
    download_tasks,       \* main: download_tasks
    submitted,            \* number of tasks handed to executor.submit
    queue,                \* work queue of the executor (task numbers, FIFO)
    status,               \* per task: "unsubmitted", "queued", "running", "done"
    response,             \* per task: the response its worker received
    result,               \* per task: future.result()
    processed,            \* tasks whose future the as_completed loop has handled
    successful_downloads, \* main: successful_downloads
    mine_pos,             \* number of entries of successful_downloads mined
    output,               \* the records written to metadata.json
    written,              \* whether metadata.json has been written
    metadata_json,        \* the bytes of metadata.json
    nSubmit,              \* per task: number of executor.submit calls
    nOutcome,             \* per task: number of results produced by a worker
    nProcessed,           \* per task: number of results handled by the loop
    raised,               \* per task: whether its future holds an exception
    mined,                \* the files handed to the mining loop, in order
    writes,               \* per record: the assignments made to it after creation
    request               \* one request of the session, inside session.get

vars ==
    <<site, volume_dir, pc, abort_reason, page, all_fields, article, metadata,
      download_tasks, submitted, queue, status, response, result, processed,
      successful_downloads, mine_pos, output, written, metadata_json,
      nSubmit, nOutcome, nProcessed, raised, mined, writes, request>>

\* A request of the session: its method, the retries left to it, the
\* attempts made, the answer to the last attempt, and where it stands:
\* "ready" to be sent, "answered", "returned" to the caller or "failed".
Request(method, total, attempts, last, phase) ==
    [method |-> method, total |-> total, attempts |-> attempts,
     last |-> last, phase |-> phase]

\* The runs of main() do not look inside session.get.
\* An attempt ends in a response with a status, or in a reset of the
\* connection; before the first attempt there is no answer.
ConnectionReset == 0
NoAnswer == -1

NoRequest == Request("none", 0, 0, NoAnswer, "none")

NoResponse == Response("none", EmptyStr, "none")

\* A record nothing has been assigned to since the correlation loop built it.
NoWrites == [file_path |-> 0, mined |-> 0, by |-> {}]

Tasks == 1..Len(download_tasks)
InFlight == {t \in Tasks : status[t] = "running"}

(***************************************************************************)
(* main(), lines 307-371: field extraction                                 *)
(***************************************************************************)
\* An extraction that keeps every topic fragment.
AnyText(text) == TRUE

\* Line 320: "if text:"
NonEmptyText(text) == text # EmptyStr
HasIdAndValue(a) == a.id # EmptyStr /\ a.value # EmptyStr

extractFields(p) ==
    [topics    |-> SelectSeq(p.topics, NonEmptyText),
     types     |-> p.types,
     pages     |-> p.pages,
     authors   |-> p.authors,
     downloads |-> p.downloads,
     abstracts |-> SelectSeq(p.abstracts, HasIdAndValue)]

(***************************************************************************)
(* main(), lines 391-442: correlation                                      *)
(***************************************************************************)
\* Lines 393-404 with the defaults of the first draft: every missing field,
\* the article type included, is the empty string.
ArticleAtEmptyDefaults(f, i) ==
    [topic         |-> f.topics[i],
     article_type  |-> IF i <= Len(f.types) THEN f.types[i] ELSE EmptyStr,
     pages         |-> IF i <= Len(f.pages) THEN f.pages[i] ELSE EmptyStr,
     authors       |-> IF i <= Len(f.authors) THEN f.authors[i] ELSE EmptyStr,
     download_link |-> IF i <= Len(f.downloads) THEN f.downloads[i] ELSE EmptyStr,
     abstract_id   |-> IF i <= Len(f.abstracts) THEN f.abstracts[i].id ELSE EmptyStr,
     abstract_text |-> IF i <= Len(f.abstracts)
                       THEN extract_abstract(f.abstracts[i].value) ELSE EmptyStr]

\* Lines 393-404: the components of article i (1-based).
ArticleAt(f, i) ==
    [topic         |-> f.topics[i],
     article_type  |-> IF i <= Len(f.types) THEN f.types[i] ELSE OriginalResearch,
     pages         |-> IF i <= Len(f.pages) THEN f.pages[i] ELSE EmptyStr,
     authors       |-> IF i <= Len(f.authors) THEN f.authors[i] ELSE EmptyStr,
     download_link |-> IF i <= Len(f.downloads) THEN f.downloads[i] ELSE EmptyStr,
     abstract_id   |-> IF i <= Len(f.abstracts) THEN f.abstracts[i].id ELSE EmptyStr,
     abstract_text |-> IF i <= Len(f.abstracts)
                       THEN extract_abstract(f.abstracts[i].value) ELSE EmptyStr]

\* Line 410 as in the first draft: no sequence number in the name.
FileNameNoIndex(i, topic) ==
    sanitize_filename(topic) \o <<".">> \o PdfExt

\* Line 410: filename = f"{(i+1):02d}-{sanitize_filename(topic)}.pdf"
FileName(i, topic) ==
    Format02d(i) \o <<"-">> \o sanitize_filename(topic) \o <<".">> \o PdfExt

\* Lines 414-422: article_data
ArticleData(dir, a, i) ==
    [title       |-> a.topic,
     page_number |-> a.pages,
     authors     |-> a.authors,
     abstract    |-> a.abstract_text,
     file_path   |-> PathJoin(dir, FileName(i, a.topic)),
     keywords    |-> EmptyStr,
     email       |-> EmptyStr]

\* Lines 430-437: the absolute download link
AbsoluteLink(url, download_link) ==
    IF StartsWith(download_link, HttpPrefix) THEN download_link
    ELSE IF StartsWith(download_link, <<"/">>)
         THEN SlashJoinFirst(url, 3) \o download_link
         ELSE SlashJoinButLast(url) \o <<"/">> \o download_link

\* Lines 428-442 with every link taken as present.
HasLinkAlways(a) == TRUE

\* Line 428: "if download_link:"
HasLink(a) == a.download_link # EmptyStr

\* Lines 439-440: the task of record idx
TaskOf(dir, a, idx) ==
    [idx       |-> idx,
     save_path |-> PathJoin(dir, FileName(idx, a.topic)),
     url       |-> AbsoluteLink(PageUrl, a.download_link)]

RECURSIVE BuildTasks(_, _, _)
BuildTasks(dir, arts, i) ==
    IF i > Len(arts) THEN <<>>
    ELSE (IF HasLink(arts[i]) THEN <<TaskOf(dir, arts[i], i)>> ELSE <<>>)
         \o BuildTasks(dir, arts, i + 1)

\* The first draft appended a record only after the link check, so that
\* records without a link were left out of metadata.
RecordsOfLinked(dir, arts) ==
    LET RECURSIVE Build(_)
        Build(i) == IF i > Len(arts) THEN <<>>
                    ELSE (IF HasLink(arts[i])
                          THEN <<ArticleData(dir, arts[i], i)>> ELSE <<>>)
                         \o Build(i + 1)
    IN  Build(1)

\* Line 425: metadata.append(article_data), once per iteration.
RecordsOf(dir, arts) ==
    [i \in 1..Len(arts) |-> ArticleData(dir, arts[i], i)]

(***************************************************************************)
(* Initial states: main() has read its input and created the directory     *)
(***************************************************************************)
InitRun(s) ==
    /\ site = s
    /\ \E folder \in FoldersOf(s) : volume_dir = PathJoin(DownloadsDir, folder)
    /\ pc = "start"
    /\ abort_reason = ""
    /\ page = NoPage
    /\ all_fields = NoPage
    /\ article = <<>>
    /\ metadata = <<>>
    /\ download_tasks = <<>>
    /\ submitted = 0
    /\ queue = <<>>
    /\ status = <<>>
    /\ response = <<>>
    /\ result = <<>>
    /\ processed = {}
    /\ successful_downloads = <<>>
    /\ mine_pos = 0
    /\ output = <<>>
    /\ written = FALSE
    /\ metadata_json = NoneVal
    /\ nSubmit = <<>>
    /\ nOutcome = <<>>
    /\ nProcessed = <<>>
    /\ raised = <<>>
    /\ mined = <<>>
    /\ writes = <<>>

Init == (\E s \in {"layout", "files"} : InitRun(s)) /\ request = NoRequest

InitPool == InitRun("bulk") /\ request = NoRequest

InitLive == InitRun("live") /\ request = NoRequest

(***************************************************************************)
(* Actions of the main thread                                              *)
(***************************************************************************)
\* Lines 281-296: session.get or raise_for_status raises; main returns.
FetchFail ==
    /\ pc = "start"
    /\ \E e \in FetchErrors : abort_reason' = e
    /\ pc' = "aborted"
    /\ UNCHANGED <<request, site, volume_dir, page, all_fields, article, metadata,
                   download_tasks, submitted, queue, status, response, result,
                   processed, successful_downloads, mine_pos, output, written, metadata_json,
                   nSubmit, nOutcome, nProcessed,
                   raised, mined, writes>>

\* Lines 281-371: the page arrives and the six lists are extracted.
FetchOk ==
    /\ pc = "start"
    /\ \E p \in PagesOf(site) :
          /\ page' = p
          /\ all_fields' = extractFields(p)
    /\ pc' = "extracted"
    /\ UNCHANGED <<request, site, volume_dir, abort_reason, article, metadata,
                   download_tasks, submitted, queue, status, response, result,
                   processed, successful_downloads, mine_pos, output, written, metadata_json,
                   nSubmit, nOutcome, nProcessed,
                   raised, mined, writes>>

\* A check of the topics that never finds the list empty.
NoTopicsFoundNever(f) == FALSE

\* Line 374: if not all_topics
NoTopicsFound(f) == Len(f.topics) < 1

\* Lines 374-376: no topics, main returns.
NoTopics ==
    /\ pc = "extracted"
    /\ NoTopicsFound(all_fields)
    /\ pc' = "aborted"
    /\ abort_reason' = "NoTopics"
    /\ UNCHANGED <<request, site, volume_dir, page, all_fields, article, metadata,
                   download_tasks, submitted, queue, status, response, result,
                   processed, successful_downloads, mine_pos, output, written, metadata_json,
                   nSubmit, nOutcome, nProcessed,
                   raised, mined, writes>>

\* Lines 378-446: the correlation loop builds metadata and download_tasks.
Correlate ==
    /\ pc = "extracted"
    /\ ~NoTopicsFound(all_fields)
    /\ LET num_articles == Len(all_fields.topics)
           arts  == [i \in 1..num_articles |-> ArticleAt(all_fields, i)]
           tasks == BuildTasks(volume_dir, arts, 1)
       IN  /\ article' = arts
           /\ metadata' = RecordsOf(volume_dir, arts)
           /\ download_tasks' = tasks
           /\ status' = [t \in 1..Len(tasks) |-> "unsubmitted"]
           /\ response' = [t \in 1..Len(tasks) |-> NoResponse]
           /\ result' = [t \in 1..Len(tasks) |-> NoResult]
           /\ nSubmit' = [t \in 1..Len(tasks) |-> 0]
           /\ nOutcome' = [t \in 1..Len(tasks) |-> 0]
           /\ nProcessed' = [t \in 1..Len(tasks) |-> 0]
           /\ raised' = [t \in 1..Len(tasks) |-> FALSE]
           /\ writes' = [i \in 1..num_articles |-> NoWrites]
           /\ pc' = IF tasks # <<>> THEN "submit" ELSE "mine"
    /\ UNCHANGED <<request, site, volume_dir, abort_reason, page, all_fields, submitted,
                   queue, processed, successful_downloads, mine_pos, output,
                   written, metadata_json, mined>>

\* Lines 450-458: executor.submit for the next task of download_tasks.
Submit ==
    /\ pc = "submit"
    /\ submitted < Len(download_tasks)
    /\ LET t == submitted + 1
       IN  /\ submitted' = t
           /\ queue' = Append(queue, t)
           /\ status' = [status EXCEPT ![t] = "queued"]
           /\ nSubmit' = [nSubmit EXCEPT ![t] = @ + 1]
           /\ pc' = IF t = Len(download_tasks) THEN "collect" ELSE "submit"
    /\ UNCHANGED <<request, site, volume_dir, abort_reason, page, all_fields, article,
                   metadata, download_tasks, response, result, processed,
                   successful_downloads, mine_pos, output, written, metadata_json, nOutcome,
                   nProcessed,
                   raised, mined, writes>>

(***************************************************************************)
(* Actions of the workers of ThreadPoolExecutor(max_workers)               *)
(***************************************************************************)
\* A pool without a limit on its threads.
WorkerAvailableUnbounded == TRUE

\* Line 448: the pool has at most max_workers threads, each runs one task.
WorkerAvailable == Cardinality(InFlight) < max_workers

\* A worker takes the oldest queued task and calls download_file.
StartDownload ==
    /\ queue # <<>>
    /\ WorkerAvailable
    /\ status' = [status EXCEPT ![Head(queue)] = "running"]
    /\ queue' = Tail(queue)
    /\ UNCHANGED <<request, site, volume_dir, pc, abort_reason, page, all_fields, article,
                   metadata, download_tasks, submitted, response, result,
                   processed, successful_downloads, mine_pos, output, written, metadata_json,
                   nSubmit, nOutcome, nProcessed,
                   raised, mined, writes>>

\* download_file reading the response headers from a variable shared by the
\* workers: a worker may resolve the type from the headers another worker
\* has stored there.
FinishDownloadShared(t, r) ==
    /\ status[t] = "running"
    /\ r \in ResponsesFor(site, download_tasks[t].url)
    /\ response' = [response EXCEPT ![t] = r]
    /\ \E u \in {t} \cup {v \in Tasks : status[v] = "done" /\ response[v].status = "ok"} :
          LET seen == IF u = t \/ r.status # "ok" THEN r
                      ELSE [r EXCEPT !.content_type = response[u].content_type]
          IN  result' = [result EXCEPT
                           ![t] = download_file(download_tasks[t].url,
                                                download_tasks[t].save_path, seen)]
    /\ status' = [status EXCEPT ![t] = "done"]
    /\ nOutcome' = [nOutcome EXCEPT ![t] = @ + 1]
    /\ UNCHANGED <<request, site, volume_dir, pc, abort_reason, page, all_fields, article,
                   metadata, download_tasks, submitted, queue, processed,
                   successful_downloads, mine_pos, output, written, metadata_json, nSubmit,
                   nProcessed, raised, mined, writes>>

\* A try block that ends before the file is opened: an error of open() or
\* of write() leaves download_file as an exception.
UncaughtWrite(resp) == resp.status = "ok" /\ resp.io # "ok"

\* Lines 67 and 95: the try block spans the whole body and the handler takes
\* every Exception, so no failure of the request or of the file leaves
\* download_file.
Uncaught(resp) == FALSE

\* Lines 65-96: download_file ends; the future of the task is done. It holds
\* the returned dictionary, or the exception that left download_file.
FinishDownload(t, r) ==
    /\ status[t] = "running"
    /\ r \in ResponsesFor(site, download_tasks[t].url)
    /\ response' = [response EXCEPT ![t] = r]
    /\ raised' = [raised EXCEPT ![t] = Uncaught(r)]
    /\ result' = [result EXCEPT
                    ![t] = IF Uncaught(r)
                           THEN NoResult
                           ELSE download_file(download_tasks[t].url,
                                              download_tasks[t].save_path, r)]
    /\ status' = [status EXCEPT ![t] = "done"]
    /\ nOutcome' = [nOutcome EXCEPT ![t] = @ + 1]
    /\ UNCHANGED <<request, site, volume_dir, pc, abort_reason, page, all_fields, article,
                   metadata, download_tasks, submitted, queue, processed,
                   successful_downloads, mine_pos, output, written, metadata_json, nSubmit,
                   nProcessed, mined, writes>>

DownloadSucceeds ==
    \E t \in Tasks : \E r \in ResponsesFor(site, download_tasks[t].url) :
        /\ r.status = "ok" /\ r.io = "ok"
        /\ FinishDownload(t, r)

DownloadFails ==
    \E t \in Tasks : \E r \in ResponsesFor(site, download_tasks[t].url) :
        /\ ~(r.status = "ok" /\ r.io = "ok")
        /\ FinishDownload(t, r)

(***************************************************************************)
(* The as_completed loop, mining and serialization (main thread)           *)
(***************************************************************************)
\* A loop that puts a failed task back on the work queue.
QueueAfterResultRetry(q, t, res) ==
    IF res.success THEN q ELSE Append(q, t)

\* Lines 477-478: a failed result is only reported; the queue is not touched.
QueueAfterResult(q, t, res) == q

\* A loop that takes the position of the future in download_tasks (the i of
\* enumerate) for the index of its record.
RecordIndexEnumerate(t) == t

\* Lines 439, 457 and 464: idx is stored with the task when it is created and
\* read back from future_to_article[future]; it is the record's position.
RecordIndex(t) == download_tasks[t].idx

\* A loop that stores result['path'] whatever the result says.
PathAfterResultAlways(old, res) == res.path

\* Lines 466-469: metadata[idx]['file_path'] is assigned only on success.
PathAfterResult(old, res) == IF res.success THEN res.path ELSE old

\* A loop that takes every finished download for a downloaded file.
SuccessfulAlways(res) == TRUE

\* Line 466: if result['success']
Successful(res) == res.success

\* A loop that records every finished download twice.
AppendSuccessfulTwice(sd, res, idx) ==
    IF res.success
    THEN sd \o << [path |-> res.path, idx |-> idx], [path |-> res.path, idx |-> idx] >>
    ELSE sd

\* Lines 466-475: successful_downloads.append((article_data, actual_path, idx))
AppendSuccessful(sd, res, idx) ==
    IF Successful(res)
    THEN Append(sd, [path |-> res.path, idx |-> idx])
    ELSE sd

\* A loop left at the first finished future.
AfterResultFirst(handled, res) == "mine"

\* A loop that gives the run up at the first failed download.
AfterResultStrict(handled, res) ==
    IF ~res.success THEN "aborted"
    ELSE IF handled = Tasks THEN "mine" ELSE "collect"

\* Lines 448-480: as_completed ends, and the with block is left, only when
\* every future has been handed to the loop; a failed result (477-478) or an
\* exception of future.result() (479-480) is printed and the loop goes on.
AfterResult(handled, res) ==
    IF handled = Tasks THEN "mine" ELSE "collect"

\* Lines 464-480: the loop handles the finished future of task t.
ProcessResult(t) ==
    /\ pc = "collect"
    /\ status[t] = "done"
    /\ t \notin processed
    /\ LET res == result[t]
           idx == RecordIndex(t)
       IN  /\ metadata' = [metadata EXCEPT
                              ![idx].file_path = PathAfterResult(@, res)]
           /\ writes' = IF res.success
                        THEN [writes EXCEPT ![idx].file_path = @ + 1,
                                            ![idx].by = @ \cup {"main"}]
                        ELSE writes
           /\ successful_downloads' =
                 AppendSuccessful(successful_downloads, res, idx)
           /\ queue' = QueueAfterResult(queue, t, res)
           /\ pc' = AfterResult(processed \cup {t}, res)
    /\ processed' = processed \cup {t}
    /\ nProcessed' = [nProcessed EXCEPT ![t] = @ + 1]
    /\ UNCHANGED <<request, site, volume_dir, abort_reason, page, all_fields, article,
                   download_tasks, submitted, status, response, result, mine_pos,
                   output, written, metadata_json, nSubmit, nOutcome, raised, mined>>

ProcessSuccess == \E t \in Tasks : result[t].success /\ ProcessResult(t)

ProcessFailure == \E t \in Tasks : ~result[t].success /\ ProcessResult(t)

\* Lines 243-262: what process_file_for_metadata returns when it cannot
\* read the file.
NoMetadata == [email |-> EmptyStr, keywords |-> EmptyStr]

\* Lines 237-247: the extractor chosen for the extension of file_path
Extractor(file_path) ==
    LET ext == Lower(SplitExt(file_path)[2])
    IN  IF ext = <<".">> \o PdfExt THEN "extract_text_from_pdf"
        ELSE IF ext = <<".">> \o DocxExt THEN "extract_text_from_docx"
        ELSE "unsupported"

\* Lines 234-262: process_file_for_metadata(file_path), given the document
\* stored at file_path.
process_file_for_metadata(file_path, doc) ==
    LET text == IF doc.fault = "extract" THEN EmptyStr ELSE doc.text
        emails == extract_emails_from_text(
                      IF doc.fault = "extract" THEN <<>> ELSE doc.emails)
        keywords == extract_keywords_from_text(text)
    IN  IF Extractor(file_path) = "unsupported"
        THEN NoMetadata
        ELSE IF doc.fault = "process"
        THEN NoMetadata
        ELSE [email |-> JoinCommaSpace(emails),
              keywords |-> JoinCommaSpace(keywords)]

\* A loop whose handler encloses the loop: the first exception ends it.
NextFileStopAtFault(pos, doc) ==
    IF doc.fault \in {"announce", "report"}
    THEN Len(successful_downloads)
    ELSE pos + 1

\* Lines 487-502: the try block is the body of the for loop, so the loop
\* goes on with the next file whatever the body raised.
NextFile(pos, doc) == pos + 1

\* The documents that can be stored at path: those of the URL it was
\* downloaded from; where no download has written a whole file, pdfplumber
\* or python-docx raises.
DocumentsAt(path) ==
    LET written_to == {u \in Tasks : result[u].success /\ result[u].path = path}
    IN  IF written_to = {}
        THEN { Document("extract", EmptyStr, <<>>) }
        ELSE UNION { DocumentsFor(site, result[t].url) : t \in written_to }

\* A loop that also takes the abstract of the record from the file.
MinedRecordWithAbstract(rec, file_metadata) ==
    [rec EXCEPT !.email = file_metadata.email,
                !.keywords = file_metadata.keywords,
                !.abstract = file_metadata.keywords]

\* Lines 494-495: the two assignments to metadata[idx]
MinedRecord(rec, file_metadata) ==
    [rec EXCEPT !.email = file_metadata.email,
                !.keywords = file_metadata.keywords]

\* Lines 485-502: the next entry of successful_downloads is mined.
Mine ==
    /\ pc = "mine"
    /\ mine_pos < Len(successful_downloads)
    /\ LET entry == successful_downloads[mine_pos + 1]
       IN  \E doc \in DocumentsAt(entry.path) :
              LET file_metadata == process_file_for_metadata(entry.path, doc)
                  assigned == doc.fault # "announce"
              IN  /\ metadata' =
                        IF assigned
                        THEN [metadata EXCEPT
                                ![entry.idx] = MinedRecord(@, file_metadata)]
                        ELSE metadata
                  /\ writes' =
                        IF assigned
                        THEN [writes EXCEPT ![entry.idx].mined = @ + 1,
                                            ![entry.idx].by = @ \cup {"main"}]
                        ELSE writes
                  /\ mined' = Append(mined, [idx |-> entry.idx,
                                             path |-> entry.path,
                                             doc |-> doc])
                  /\ mine_pos' = NextFile(mine_pos, doc)
    /\ UNCHANGED <<request, site, volume_dir, pc, abort_reason, page, all_fields, article,
                   download_tasks, submitted, queue, status, response, result,
                   processed, successful_downloads, output, written, metadata_json, nSubmit,
                   nOutcome, nProcessed, raised>>

(***************************************************************************)
(* metadata.json (lines 504-507)                                           *)
(***************************************************************************)
\* The keys of an article record in insertion order (lines 414-422).
Fields ==
    << [name |-> "title",       key |-> <<"t","i","t","l","e">>],
       [name |-> "page_number", key |-> <<"p","a","g","e","_","n","u","m","b","e","r">>],
       [name |-> "authors",     key |-> <<"a","u","t","h","o","r","s">>],
       [name |-> "abstract",    key |-> <<"a","b","s","t","r","a","c","t">>],
       [name |-> "file_path",   key |-> <<"f","i","l","e","_","p","a","t","h">>],
       [name |-> "keywords",    key |-> <<"k","e","y","w","o","r","d","s">>],
       [name |-> "email",       key |-> <<"e","m","a","i","l">>] >>

\* A writer that puts every character between the quotes as it is.
EscapeCharRaw(c) == <<c>>

\* json.dump(..., ensure_ascii=False) on one character of a string: the
\* quote, the backslash and the control characters are escaped, every other
\* character is written as it is.
EscapeChar(c) ==
    IF c = Quote THEN <<Backslash, Quote>>
    ELSE IF c = Backslash THEN <<Backslash, Backslash>>
    ELSE IF c = "\n" THEN <<Backslash, "n">>
    ELSE IF c = "\r" THEN <<Backslash, "r">>
    ELSE IF c = "\t" THEN <<Backslash, "t">>
    ELSE IF c = StartOfHeading THEN <<Backslash, "u", "0", "0", "0", "1">>
    ELSE <<c>>

\* open(json_path, 'w', encoding='utf-8'): the bytes of one character; a
\* byte below 128 is written as its character, another byte by its value.
Utf8Char(c) ==
    IF c = EAcute THEN <<"xC3", "xA9">>
    ELSE IF c = EuroSign THEN <<"xE2", "x82", "xAC">>
    ELSE <<c>>

\* The bytes f receives for the characters of an escaped character.
Utf8Encode(t) ==
    IF Len(t) = 1 THEN Utf8Char(t[1]) ELSE t

\* The bytes written for the characters lo..hi of a str.
RECURSIVE EscapeRange(_, _, _)
EscapeRange(s, lo, hi) ==
    IF lo > hi THEN <<>>
    ELSE IF lo = hi THEN Utf8Encode(EscapeChar(s[lo]))
    ELSE EscapeRange(s, lo, (lo + hi) \div 2)
            \o EscapeRange(s, ((lo + hi) \div 2) + 1, hi)

\* json.dump on a str
EncodeString(s) == <<Quote>> \o EscapeRange(s, 1, Len(s)) \o <<Quote>>

Indent(n) == [k \in 1..n |-> " "]

\* json.dump on the members k.. of a dict with indent=2, at nesting level 1
RECURSIVE EncodeMembers(_, _)
EncodeMembers(rec, k) ==
    Indent(4) \o EncodeString(Fields[k].key) \o <<":", " ">>
        \o EncodeString(rec[Fields[k].name])
        \o (IF k = Len(Fields) THEN <<"\n">>
            ELSE <<",", "\n">> \o EncodeMembers(rec, k + 1))

\* json.dump on the elements k.. of a non-empty list with indent=2
RECURSIVE EncodeElements(_, _)
EncodeElements(records, k) ==
    Indent(2) \o <<"{", "\n">> \o EncodeMembers(records[k], 1)
        \o Indent(2) \o <<"}">>
        \o (IF k = Len(records) THEN <<"\n">>
            ELSE <<",", "\n">> \o EncodeElements(records, k + 1))

\* json.dump(metadata, f, indent=2, ensure_ascii=False) on a file opened
\* with encoding='utf-8': the bytes written
json_dump(records) ==
    IF Len(records) = 0 THEN <<"[", "]">>
    ELSE <<"[", "\n">> \o EncodeElements(records, 1) \o <<"]">>

\* A run that writes metadata.json without waiting for the mining loop.
MiningFinishedAlways == TRUE

\* Lines 485-504: json.dump follows the for loop over successful_downloads.
MiningFinished == mine_pos = Len(successful_downloads)

\* Lines 504-507: json.dump(metadata, ...)
Serialize ==
    /\ pc = "mine"
    /\ MiningFinished
    /\ output' = metadata
    /\ metadata_json' = json_dump(metadata)
    /\ written' = TRUE
    /\ pc' = "done"
    /\ UNCHANGED <<request, site, volume_dir, abort_reason, page, all_fields, article,
                   metadata, download_tasks, submitted, queue, status, response,
                   result, processed, successful_downloads, mine_pos, nSubmit,
                   nOutcome, nProcessed,
                   raised, mined, writes>>

Next ==
    \/ FetchFail
    \/ FetchOk
    \/ NoTopics
    \/ Correlate
    \/ Submit
    \/ StartDownload
    \/ DownloadSucceeds
    \/ DownloadFails
    \/ ProcessSuccess
    \/ ProcessFailure
    \/ Mine
    \/ Serialize

Spec == Init /\ [][Next]_vars

SpecPool == InitPool /\ [][Next]_vars

\* The steps of the main thread and of the pool's threads.
MainStep ==
    \/ FetchFail \/ FetchOk \/ NoTopics \/ Correlate \/ Submit
    \/ ProcessSuccess \/ ProcessFailure \/ Mine \/ Serialize
WorkerStep == StartDownload \/ DownloadSucceeds \/ DownloadFails

\* The interpreter keeps running every thread that can run, and every
\* request ends: session.get has its retries bounded (lines 112-118) and
\* iter_content ends with the response.
SpecLive ==
    InitLive /\ [][Next]_vars /\ WF_vars(MainStep) /\ WF_vars(WorkerStep)

(***************************************************************************)
(* The session of create_session (lines 109-123): one request             *)
(***************************************************************************)
\* Line 113: total=3
RetryTotal == 3

\* Line 115: status_forcelist
status_forcelist == {429, 500, 502, 503, 504}

\* Line 116: allowed_methods
allowed_methods == {"HEAD", "GET", "OPTIONS"}

\* The methods a caller can ask the session for.
Methods == allowed_methods \cup {"POST", "PUT"}

\* What an attempt can end in: the connection is reset, or a response with
\* a status arrives.
Answers == {ConnectionReset} \cup status_forcelist \cup {200, 206, 404, 403, 501}

\* A strategy where total counts the attempts, the first one included.
RetriesLeftAtStartAttempts == RetryTotal - 1

\* Line 113: total is the number of retries, the attempts after the first.
RetriesLeftAtStart == RetryTotal

InitFetch ==
    /\ InitRun("live")
    /\ \E m \in Methods : request = Request(m, RetriesLeftAtStart, 0, NoAnswer, "ready")

\* Lines 113-117: the strategy asks for another attempt after this answer.
IsRetry(method, answer) ==
    /\ method \in allowed_methods
    /\ answer = ConnectionReset \/ answer \in status_forcelist

RunUnchanged ==
    UNCHANGED <<site, volume_dir, pc, abort_reason, page, all_fields, article,
                metadata, download_tasks, submitted, queue, status, response,
                result, processed, successful_downloads, mine_pos, output,
                written, metadata_json, nSubmit, nOutcome, nProcessed, raised,
                mined, writes>>

\* The adapter sends the request.
Send ==
    /\ request.phase = "ready"
    /\ \E a \in Answers :
          request' = [request EXCEPT !.attempts = @ + 1, !.last = a,
                                     !.phase = "answered"]
    /\ RunUnchanged

\* The strategy has a retry left: it is used up, and after the backoff the
\* request is sent again.
RetryAgain ==
    /\ request.phase = "answered"
    /\ IsRetry(request.method, request.last)
    /\ request.total > 0
    /\ request' = [request EXCEPT !.total = @ - 1, !.phase = "ready"]
    /\ RunUnchanged

\* No retry is left: session.get raises.
GiveUp ==
    /\ request.phase = "answered"
    /\ IsRetry(request.method, request.last)
    /\ request.total = 0
    /\ request' = [request EXCEPT !.phase = "failed"]
    /\ RunUnchanged

\* A reset the strategy does not retry: session.get raises.
RaiseReset ==
    /\ request.phase = "answered"
    /\ ~IsRetry(request.method, request.last)
    /\ request.last = ConnectionReset
    /\ request' = [request EXCEPT !.phase = "failed"]
    /\ RunUnchanged

\* A response the strategy does not retry: session.get returns it.
ReturnResponse ==
    /\ request.phase = "answered"
    /\ ~IsRetry(request.method, request.last)
    /\ request.last # ConnectionReset
    /\ request' = [request EXCEPT !.phase = "returned"]
    /\ RunUnchanged

NextFetch == Send \/ RetryAgain \/ GiveUp \/ RaiseReset \/ ReturnResponse

\* Every attempt ends: in a response, or in an error of the connection.
SpecFetch == InitFetch /\ [][NextFetch]_vars /\ WF_vars(NextFetch)

(***************************************************************************)
(* Properties                                                              *)
(***************************************************************************)
Correlated == pc \in {"submit", "collect", "mine", "done"}

\* The records of the run, in every state after correlation.
Records == 1..Len(metadata)

\* The name of the file of a path: what follows the directory of the run.
BaseName(path) == Drop(path, Len(volume_dir) + 1)

\* The part of a file name between the "NN-" prefix and the extension.
Stem(path) ==
    LET name == BaseName(path)
    IN  SubSeq(name, 4, RFind(name, ".") - 1)

\* n as exactly two decimal digits (n < 100).
TwoDigits(n) == <<DigitChars[(n \div 10) + 1], DigitChars[(n % 10) + 1]>>

\* Record i still has the path it was given by the correlation.
Provisional(i) ==
    ~\E t \in processed : download_tasks[t].idx = i /\ result[t].success

NonEmptyTopics == {k \in 1..Len(page.topics) : page.topics[k] # EmptyStr}

\* C1: once the records are serialized, their number is the number of
\* non-empty topic fragments of the fetched page, whatever the lengths of the
\* other lists and the outcomes of the downloads and of the mining.
C1_RecordCountEqualsTopics ==
    written => Len(output) = Cardinality(NonEmptyTopics)

\* C1 witness: a serialized run of a page with an empty topic fragment whose
\* other lists are shorter and longer than the topic list.
C1_Witness ==
    /\ written
    /\ \E k \in 1..Len(page.topics) : page.topics[k] = EmptyStr
    /\ Len(page.types) > Len(output)
    /\ Len(page.authors) < Len(output)
    /\ Len(successful_downloads) = 1

\* C2: after correlation every article i takes the i-th fragment of a field
\* list when the list has one and the documented default otherwise ("" for
\* pages, authors, download href and abstract, "Original Research" for the
\* article type); the abstract is the i-th retained fragment as plain text.
C2_ShortListsGetDefaults ==
    Correlated =>
        /\ Len(article) = Len(all_fields.topics)
        /\ Len(metadata) = Len(all_fields.topics)
        /\ \A i \in 1..Len(all_fields.topics) :
              /\ article[i].article_type =
                    IF i <= Len(all_fields.types) THEN all_fields.types[i]
                    ELSE <<"O","r","i","g","i","n","a","l"," ","R","e","s","e","a","r","c","h">>
              /\ metadata[i].page_number =
                    IF i <= Len(all_fields.pages) THEN all_fields.pages[i] ELSE <<>>
              /\ metadata[i].authors =
                    IF i <= Len(all_fields.authors) THEN all_fields.authors[i] ELSE <<>>
              /\ article[i].download_link =
                    IF i <= Len(all_fields.downloads) THEN all_fields.downloads[i] ELSE <<>>
              /\ metadata[i].abstract =
                    IF i <= Len(all_fields.abstracts)
                    THEN extract_abstract(all_fields.abstracts[i].value) ELSE <<>>

\* C2 witness: two articles, every other list has exactly one fragment, so
\* that article 1 takes fragments and article 2 takes the defaults.
C2_Witness ==
    /\ pc = "done"
    /\ Len(all_fields.topics) = 2
    /\ Len(all_fields.types) = 1
    /\ Len(all_fields.pages) = 1
    /\ Len(all_fields.authors) = 1
    /\ Len(all_fields.downloads) = 1
    /\ Len(all_fields.abstracts) = 1
    /\ article[2].article_type = OriginalResearch
    /\ metadata[1].page_number = <<"p", "1">>

\* C3: a record without a download href has no download task and is still
\* in the output; the tasks are exactly the records with a non-empty href,
\* one task each, and only they are submitted.
C3_LinklessEmittedNotDownloaded ==
    Correlated =>
        /\ \A i \in 1..Len(article) :
              Cardinality({t \in Tasks : download_tasks[t].idx = i})
                 = IF article[i].download_link = <<>> THEN 0 ELSE 1
        /\ \A t \in Tasks : download_tasks[t].idx \in 1..Len(article)
        /\ DOMAIN nSubmit = Tasks
        /\ written =>
              /\ Len(output) = Len(article)
              /\ \A i \in 1..Len(article) : output[i].title = article[i].topic

\* C3 witness: the run is serialized, record 1 had a link and was submitted,
\* record 2 had none.
C3_Witness ==
    /\ written
    /\ Len(article) = 2
    /\ article[1].download_link # <<>>
    /\ article[2].download_link = <<>>
    /\ Len(download_tasks) = 1
    /\ nSubmit[1] = 1
    /\ output[2].title = NitrogenTitle

\* C4: the provisional file name of record n with title t is the two-digit
\* n, "-", sanitize(t), ".pdf"; "Soil pH Effects" at position 1 gives
\* 01-Soil_pH_Effects.pdf.
C4_ProvisionalFileName ==
    /\ \A i \in Records :
          Provisional(i) =>
             /\ BaseName(metadata[i].file_path) =
                   TwoDigits(i) \o <<"-">> \o sanitize_filename(metadata[i].title)
                      \o <<".", "p", "d", "f">>
             /\ (i = 1 /\ metadata[i].title = SoilTitle) =>
                   BaseName(metadata[i].file_path) =
                      <<"0","1","-","S","o","i","l","_","p","H","_","E","f","f","e","c","t","s",".","p","d","f">>
    /\ \A t \in Tasks :
          download_tasks[t].save_path =
             volume_dir \o <<"/">> \o TwoDigits(download_tasks[t].idx) \o <<"-">>
                \o sanitize_filename(metadata[download_tasks[t].idx].title)
                \o <<".", "p", "d", "f">>

\* C4 witness: "Soil pH Effects" is record 1 and has its provisional path.
C4_Witness ==
    /\ Correlated
    /\ metadata[1].title = SoilTitle
    /\ Provisional(1)
    /\ BaseName(metadata[1].file_path) =
          <<"0","1","-","S","o","i","l","_","p","H","_","E","f","f","e","c","t","s",".","p","d","f">>
    /\ Len(download_tasks) >= 1

\* C5: the sanitized title in the path of every record has none of the
\* characters \ / ( ) . , * ? : " < > | and no whitespace, and is at most 200
\* characters long.
C5_SanitizedTitleClean ==
    \A i \in Records :
        LET stem == Stem(metadata[i].file_path)
        IN  /\ \A k \in 1..Len(stem) :
                  /\ stem[k] \notin {"\\", "/", "(", ")", ".", ",", "*", "?", ":", "\"", "<", ">", "|"}
                  /\ stem[k] \notin {" ", "\t", "\n", "\r"}
            /\ Len(stem) <= 200
            /\ Len(stem) <= Len(metadata[i].title)

\* C5 witness: one title with invalid characters and whitespace, one title
\* longer than 200 characters whose sanitized form has exactly 200.
C5_Witness ==
    /\ Correlated
    /\ \E i \in Records :
          /\ \E k \in 1..Len(metadata[i].title) : metadata[i].title[k] \in InvalidChars
          /\ \E k \in 1..Len(metadata[i].title) : metadata[i].title[k] \in Whitespace
          /\ Len(Stem(metadata[i].file_path)) > 0
    /\ \E i \in Records :
          /\ Len(metadata[i].title) > 200
          /\ Len(Stem(metadata[i].file_path)) = 200

\* A worker has opened the file of task t for writing.
Opened(t) == status[t] = "done" /\ response[t].status = "ok"

\* C6: the paths of distinct records always differ, also for equal titles
\* and after any extension rewrite, and two workers never write one file.
C6_PathsPairwiseDistinct ==
    /\ \A i, j \in Records :
          i # j => metadata[i].file_path # metadata[j].file_path
    /\ \A t, u \in Tasks :
          (t # u /\ Opened(t) /\ Opened(u)) => result[t].path # result[u].path

\* C6 witness: two records with the same title, one path rewritten to .docx
\* by a processed download, the other one written as .pdf.
C6_Witness ==
    \E t, u \in Tasks :
        /\ t # u
        /\ metadata[download_tasks[t].idx].title = metadata[download_tasks[u].idx].title
        /\ t \in processed /\ result[t].success /\ result[t].extension = DocxExt
        /\ metadata[download_tasks[t].idx].file_path = result[t].path
        /\ Opened(u) /\ result[u].extension = PdfExt

\* The absolute URLs of the download links of the sites, by their ending.
UrlsEndingPdf ==
    { <<"h","t","t","p",":","/","/","x","/","a",".","p","d","f">>,
      <<"h","t","t","p",":","/","/","x","/","A",".","P","D","F","?","v","=","1",".","2">> }
UrlsEndingDocx ==
    { <<"h","t","t","p",":","/","/","x","/","b",".","d","o","c","x">> }

\* The extension the resolution policy prescribes for the headers and URLs
\* of the sites, as a table.
PrescribedExtension(content_type, url) ==
    IF content_type \in {CtPdf, CtPdfUpper} THEN <<"p", "d", "f">>
    ELSE IF content_type \in {CtWordml, CtMsword} THEN <<"d", "o", "c", "x">>
    ELSE IF url \in UrlsEndingPdf THEN <<"p", "d", "f">>
    ELSE IF url \in UrlsEndingDocx THEN <<"d", "o", "c", "x">>
    ELSE <<"p", "d", "f">>

\* C7: a completed download has the extension of its recognized content-type
\* (pdf for application/pdf, docx for wordprocessingml and msword), else the
\* extension of its URL when that is pdf or docx, else pdf; its file has that
\* extension.  The content-type wins over the URL.
C7_ExtensionResolution ==
    \A t \in Tasks :
        (status[t] = "done" /\ result[t].success) =>
            /\ result[t].extension =
                  PrescribedExtension(response[t].content_type, download_tasks[t].url)
            /\ SplitExt(result[t].path)[2] = <<".">> \o result[t].extension

\* C7 witness: a wordprocessingml content-type on a URL ending in .pdf gave
\* docx, and in the same run an unrecognized content-type on a URL ending in
\* .pdf gave pdf by the URL.
C7_Witness ==
    \E t, u \in Tasks :
        /\ status[t] = "done" /\ result[t].success
        /\ response[t].content_type = CtWordml
        /\ download_tasks[t].url \in UrlsEndingPdf
        /\ result[t].extension = DocxExt
        /\ status[u] = "done" /\ result[u].success
        /\ response[u].content_type = CtHtml
        /\ download_tasks[u].url \in UrlsEndingPdf
        /\ result[u].extension = PdfExt

\* C8: two completed downloads with the same content-type and the same URL
\* have the same extension, whatever their save paths, the other downloads
\* and the order of completion.
C8_ResolutionDeterministic ==
    \A t, u \in Tasks :
        ( /\ status[t] = "done" /\ result[t].success
          /\ status[u] = "done" /\ result[u].success
          /\ response[t].content_type = response[u].content_type
          /\ download_tasks[t].url = download_tasks[u].url )
        => result[t].extension = result[u].extension

\* C8 witness: three downloads of one URL to three save paths; the second and
\* the third got the same content-type and the same extension, the first one
\* another content-type and another extension.
C8_Witness ==
    /\ Len(download_tasks) = 3
    /\ \A t \in Tasks : status[t] = "done" /\ result[t].success
    /\ download_tasks[1].url = download_tasks[2].url
    /\ download_tasks[2].url = download_tasks[3].url
    /\ download_tasks[2].save_path # download_tasks[3].save_path
    /\ response[2].content_type = response[3].content_type
    /\ result[2].extension = result[3].extension
    /\ response[1].content_type # response[2].content_type
    /\ result[1].extension # result[2].extension

\* C9: at most 8 download tasks are in flight at any moment.
C9_InFlightBounded ==
    Cardinality({t \in Tasks : status[t] = "running"}) <= 8

\* C9 witness: 8 tasks are in flight while a further task waits in the queue.
C9_Witness ==
    /\ Cardinality({t \in Tasks : status[t] = "running"}) = 8
    /\ queue # <<>>
    /\ Len(download_tasks) > 8

\* C10: every task is submitted at most once, yields at most one outcome and
\* is handled at most once; a handled task stays done and off the queue
\* (a failure is not resubmitted); after the download phase every task has been
\* submitted, has yielded an outcome and has been handled exactly once.
C10_OneOutcomePerTask ==
    Correlated =>
        \A t \in Tasks :
            /\ nSubmit[t] <= 1 /\ nOutcome[t] <= 1 /\ nProcessed[t] <= 1
            /\ nProcessed[t] <= nOutcome[t] /\ nOutcome[t] <= nSubmit[t]
            /\ (t \in processed) =>
                  /\ status[t] = "done"
                  /\ \A k \in 1..Len(queue) : queue[k] # t
            /\ (pc \in {"mine", "done"}) =>
                  nSubmit[t] = 1 /\ nOutcome[t] = 1 /\ nProcessed[t] = 1

\* C10 witness: a finished run with a failed and a successful download, each
\* submitted and handled once.
C10_Witness ==
    /\ pc = "done"
    /\ \E t, u \in Tasks :
          /\ ~result[t].success /\ result[u].success
          /\ nSubmit[t] = 1 /\ nOutcome[t] = 1 /\ nProcessed[t] = 1
          /\ nSubmit[u] = 1 /\ nOutcome[u] = 1 /\ nProcessed[u] = 1

(***************************************************************************)
(* Failure containment and stage ordering                                  *)
(***************************************************************************)
\* C11: an exception raised during a download is caught inside download_file:
\* the future of a finished task holds a returned dictionary, never an
\* exception; when the request or the writing of the file failed, the
\* dictionary has success = False and carries the text of the error; and
\* whatever the other tasks ended with, every task has an outcome once the
\* download phase is over.
C11_DownloadErrorsContained ==
    Correlated =>
        /\ \A t \in Tasks :
              status[t] = "done" =>
                 /\ ~raised[t]
                 /\ result[t] # NoResult
                 /\ (response[t].status # "ok" \/ response[t].io # "ok") =>
                       /\ ~result[t].success
                       /\ result[t].error # "none"
                       /\ result[t].error \in
                             {response[t].status, response[t].io} \ {"ok"}
        /\ (pc \in {"mine", "done"}) =>
              \A t \in Tasks : status[t] = "done" /\ nOutcome[t] = 1

\* C11 witness: a finished run in which one download failed while the file
\* was written, and another task of the same run succeeded.
C11_Witness ==
    /\ pc = "done"
    /\ \E t, u \in Tasks :
          /\ response[t].status = "ok" /\ response[t].io = "write_error"
          /\ ~result[t].success /\ result[t].error = "write_error"
          /\ result[u].success

\* The path record i was given by the correlation loop.
ProvisionalPath(i) == RecordsOf(volume_dir, article)[i].file_path

\* C12: when the loop has handled a successful download, file_path of its
\* record is the path the file was written to, which ends in the resolved
\* extension; when the download failed, also after the path was rewritten for
\* the file, or is not handled yet, file_path keeps the provisional value; a
\* failure does not keep the loop from handling the other tasks.
C12_FilePathFollowsOutcome ==
    Correlated =>
        \A t \in Tasks :
            LET idx == download_tasks[t].idx
            IN  /\ (t \in processed /\ result[t].success) =>
                      /\ metadata[idx].file_path = result[t].path
                      /\ SplitExt(result[t].path)[2] =
                             <<".">> \o result[t].extension
                /\ (t \notin processed \/ ~result[t].success) =>
                      /\ metadata[idx].file_path = ProvisionalPath(idx)
                      /\ metadata[idx].file_path = download_tasks[t].save_path
                /\ (pc \in {"mine", "done"}) => t \in processed

\* C12 witness: a finished run where one record carries the rewritten path
\* of its file and another keeps the provisional path although its failed
\* download had already rewritten the path.
C12_Witness ==
    /\ pc = "done"
    /\ \E t, u \in Tasks :
          /\ result[t].success
          /\ result[t].path # download_tasks[t].save_path
          /\ metadata[download_tasks[t].idx].file_path = result[t].path
          /\ ~result[u].success
          /\ result[u].path # download_tasks[u].save_path
          /\ metadata[download_tasks[u].idx].file_path = download_tasks[u].save_path

\* The tasks whose download has not ended or has not been handled yet.
PendingTasks == {t \in Tasks : status[t] # "done" \/ t \notin processed}

\* C13: the stages are separated by barriers: no file is mined while a
\* download is waiting, in flight or not handled yet, and metadata.json is
\* written only when every successful download has been through the mining
\* loop.
C13_StageBarrier ==
    /\ (mine_pos > 0 \/ mined # <<>>) =>
          /\ PendingTasks = {}
          /\ queue = <<>> /\ InFlight = {}
    /\ written =>
          /\ PendingTasks = {}
          /\ mine_pos = Len(successful_downloads)
          /\ \A t \in Tasks :
                result[t].success =>
                   \E k \in 1..Len(mined) : mined[k].path = result[t].path

\* C13 witness: a run that downloaded three files, the last download
\* handled being the first one submitted, mined them all and then wrote
\* metadata.json.
C13_Witness ==
    /\ written
    /\ Len(mined) = 3
    /\ mined[3].idx = download_tasks[1].idx
    /\ mined[1].path # mined[2].path

\* The file written by task t has been through the mining loop.
MinedTask(t) == \E k \in 1..Len(mined) : mined[k].path = result[t].path

\* C14: when the threads are scheduled fairly and every download ends, a run
\* that got past the correlation reaches the final serialization, and by then
\* every successful download has been mined.
C14_MinedThenSerialized ==
    Correlated ~>
        (/\ pc = "done" /\ written
         /\ \A t \in Tasks : status[t] = "done"
         /\ \A t \in Tasks : result[t].success => MinedTask(t))

\* C14 witness: metadata.json is written after one download failed and
\* three succeeded and were mined, a later task's file before an earlier one's.
C14_Witness ==
    /\ pc = "done" /\ written
    /\ Len(mined) = 3
    /\ \E t \in Tasks : ~result[t].success
    /\ \E t, u \in Tasks :
          /\ t < u
          /\ result[t].success /\ result[u].success
          /\ mined[1].path = result[u].path
          /\ mined[3].path = result[t].path

\* The successful tasks the loop has handled for record i, and the entries
\* of the mining loop that assigned to record i.
HandledFor(i) ==
    {t \in processed : download_tasks[t].idx = i /\ result[t].success}
MinedFor(i) ==
    {k \in 1..Len(mined) : mined[k].idx = i /\ mined[k].doc.fault # "announce"}

\* C15: in whatever order the downloads complete, the path of a downloaded
\* file and the keywords and email mined from it are written to the record
\* the task was created from: a task carries the provisional path and the
\* link of the record at its idx, its final path goes to that record and to
\* no other, the file mined for a record is the file of that record's task,
\* and the records written to metadata.json are in the order of the topics.
C15_ResultsReachOwnRecord ==
    Correlated =>
        /\ \A t \in Tasks :
              LET idx == download_tasks[t].idx
              IN  /\ download_tasks[t].save_path = ProvisionalPath(idx)
                  /\ download_tasks[t].url =
                        AbsoluteLink(PageUrl, article[idx].download_link)
                  /\ (t \in processed /\ result[t].success) =>
                        metadata[idx].file_path = result[t].path
        /\ \A i \in Records :
              /\ HandledFor(i) = {} => metadata[i].file_path = ProvisionalPath(i)
              /\ MinedFor(i) = {} =>
                    metadata[i].email = EmptyStr /\ metadata[i].keywords = EmptyStr
        /\ \A k \in 1..Len(mined) :
              /\ \E t \in Tasks :
                    /\ download_tasks[t].idx = mined[k].idx
                    /\ result[t].success /\ result[t].path = mined[k].path
              /\ k \in MinedFor(mined[k].idx) =>
                    /\ metadata[mined[k].idx].email =
                          process_file_for_metadata(mined[k].path, mined[k].doc).email
                    /\ metadata[mined[k].idx].keywords =
                          process_file_for_metadata(mined[k].path, mined[k].doc).keywords
        /\ written =>
              /\ output = metadata
              /\ Len(output) = Len(all_fields.topics)
              /\ \A i \in 1..Len(output) : output[i].title = all_fields.topics[i]

\* C15 witness: the first record has no link, so task 1 belongs to record 2
\* and task 2 to record 3; task 2 completed and was mined first, and the two
\* records were written with different final paths and different keywords.
C15_Witness ==
    /\ written
    /\ Len(download_tasks) = 2
    /\ download_tasks[1].idx = 2 /\ download_tasks[2].idx = 3
    /\ Len(mined) = 2
    /\ mined[1].idx = 3 /\ mined[2].idx = 2
    /\ output[2].file_path = result[1].path
    /\ output[3].file_path = result[2].path
    /\ output[2].keywords # EmptyStr
    /\ output[3].keywords # EmptyStr
    /\ output[2].keywords # output[3].keywords
    /\ output[1].keywords = EmptyStr

\* C16: when the page cannot be fetched (HTTP error, connection error,
\* timeout or another request error), or it yields no topic with text, the
\* run aborts: no record is built, no task is created or submitted, no file
\* is mined and metadata.json is not written.
C16_NoPageNoOutput ==
    (abort_reason \in FetchErrors \/ (pc # "start" /\ NonEmptyTopics = {})) =>
        /\ pc \in {"extracted", "aborted"}
        /\ metadata = <<>> /\ download_tasks = <<>>
        /\ submitted = 0 /\ queue = <<>> /\ InFlight = {}
        /\ mine_pos = 0 /\ mined = <<>>
        /\ ~written /\ output = <<>>

\* C16 witness: the page was fetched and has a topic container and download
\* links, but no topic with text; the run has aborted.
C16_Witness ==
    /\ pc = "aborted" /\ abort_reason = "NoTopics"
    /\ Len(page.topics) >= 1 /\ Len(page.downloads) >= 1
    /\ ~written

\* The faults of the miner that leave a record without keywords and email.
MiningFailed(i) ==
    \E k \in 1..Len(mined) :
        mined[k].idx = i /\ mined[k].doc.fault \in {"extract", "process", "announce"}

\* C17: once the page has been fetched and has a topic with text, no missing
\* link, failed download or failed mining aborts the run: the run never
\* aborts, metadata.json holds one record per topic with the fields of the
\* correlation, and a failure shows only as the provisional file_path (no
\* link, failed download) or as empty keywords and email (those, and a failed
\* mining).
C17_RecordLevelFailuresKept ==
    (pc # "start" /\ abort_reason \notin FetchErrors /\ NonEmptyTopics # {}) =>
        /\ pc # "aborted" /\ abort_reason = ""
        /\ Correlated => Len(metadata) = Cardinality(NonEmptyTopics)
        /\ written =>
              /\ Len(output) = Cardinality(NonEmptyTopics)
              /\ \A i \in 1..Len(output) :
                    LET made == RecordsOf(volume_dir, article)[i]
                    IN  /\ output[i].title = made.title
                        /\ output[i].page_number = made.page_number
                        /\ output[i].authors = made.authors
                        /\ output[i].abstract = made.abstract
                        /\ HandledFor(i) = {} =>
                              /\ output[i].file_path = made.file_path
                              /\ output[i].keywords = EmptyStr
                              /\ output[i].email = EmptyStr
                        /\ HandledFor(i) # {} =>
                              \E t \in HandledFor(i) :
                                  output[i].file_path = result[t].path
                        /\ MiningFailed(i) =>
                              /\ output[i].keywords = EmptyStr
                              /\ output[i].email = EmptyStr

\* C17 witness: metadata.json is written with three records: one without a
\* link, one whose file could not be mined and one whose download failed.
C17_Witness ==
    /\ written /\ Len(output) = 3
    /\ ~HasLink(article[1])
    /\ \E i, j \in 2..3 :
          /\ HandledFor(i) # {} /\ MiningFailed(i)
          /\ output[i].file_path # ProvisionalPath(i) /\ output[i].keywords = EmptyStr
          /\ HasLink(article[j]) /\ HandledFor(j) = {}
          /\ \E t \in Tasks : download_tasks[t].idx = j /\ ~result[t].success
          /\ output[j].file_path = ProvisionalPath(j)

\* C18: an exception raised while a file is read or mined (in the extractor,
\* in process_file_for_metadata or in the loop before the assignment) leaves
\* keywords and email of that file's record empty, and of that record only:
\* the loop goes on with the next file, every entry of successful_downloads
\* is handled in its turn, and a record mined without exception holds what
\* its own file gives.
C18_MiningFaultIsLocal ==
    /\ Len(mined) = mine_pos
    /\ \A k \in 1..Len(mined) :
          LET i == mined[k].idx
          IN  /\ mined[k].idx = successful_downloads[k].idx
              /\ mined[k].path = successful_downloads[k].path
              /\ mined[k].doc.fault \in {"extract", "process", "announce"} =>
                    metadata[i].email = EmptyStr /\ metadata[i].keywords = EmptyStr
              /\ mined[k].doc.fault \in {"none", "report"} =>
                    /\ metadata[i].email =
                          JoinCommaSpace(extract_emails_from_text(mined[k].doc.emails))
                    /\ metadata[i].keywords =
                          JoinCommaSpace(extract_keywords_from_text(mined[k].doc.text))
    /\ written => Len(mined) = Len(successful_downloads)

\* C18 witness: the first file of the mining loop raised before its record
\* was assigned, the second file was mined all the same, and metadata.json
\* holds empty keywords for the first record and the mined ones for the
\* second.
C18_Witness ==
    /\ written /\ Len(mined) = 2
    /\ mined[1].doc.fault = "announce" /\ mined[2].doc.fault = "none"
    /\ output[mined[1].idx].keywords = EmptyStr
    /\ output[mined[1].idx].email = EmptyStr
    /\ output[mined[2].idx].keywords # EmptyStr
    /\ output[mined[2].idx].email # EmptyStr

\* The tasks created for record i.
TasksOf(i) == {t \in Tasks : download_tasks[t].idx = i}

\* C19: a record is written by at most one download outcome and, after it,
\* by at most one mining result; no two tasks share a record, the pool's
\* threads write no record (only the main thread does), and no download is
\* running when a record is assigned its mined fields.
C19_OneWriterPerRecord ==
    Correlated =>
        \A i \in Records :
            /\ Cardinality(TasksOf(i)) <= 1
            /\ writes[i].file_path <= 1 /\ writes[i].mined <= 1
            /\ writes[i].file_path = Cardinality(HandledFor(i))
            /\ writes[i].mined = Cardinality(MinedFor(i))
            /\ writes[i].mined = 1 =>
                  /\ writes[i].file_path = 1
                  /\ InFlight = {} /\ PendingTasks = {}
            /\ writes[i].by \subseteq {"main"}

\* C19 witness: a finished run with a record written by its download outcome
\* and then by its mining result, and another record written by neither.
C19_Witness ==
    /\ written
    /\ \E i, j \in Records :
          /\ writes[i].file_path = 1 /\ writes[i].mined = 1
          /\ writes[i].by = {"main"}
          /\ writes[j].file_path = 0 /\ writes[j].mined = 0
          /\ TasksOf(j) # {}

(***************************************************************************)
(* Keyword extraction                                                      *)
(***************************************************************************)
ScenarioKeywords ==
    << <<"s","o","i","l">>,
       <<"n","i","t","r","o","g","e","n">>,
       <<"p","H">> >>

\* A file with the text of the scenario that was mined without exception.
MinedScenario(k) ==
    /\ mined[k].doc.text = ScenarioText
    /\ mined[k].doc.fault = "none"

\* C20: keyword extraction on a text containing "Keywords: soil, nitrogen, pH"
\* followed by a blank line and "Abstract: ..." returns the list
\* ["soil", "nitrogen", "pH"], each keyword in the case it has in the text,
\* and that list, joined, is what the record of the file receives.
C20_ScenarioKeywordsKeepCase ==
    \A k \in 1..Len(mined) :
        MinedScenario(k) =>
            /\ extract_keywords_from_text(mined[k].doc.text) = ScenarioKeywords
            /\ metadata[mined[k].idx].keywords = JoinCommaSpace(ScenarioKeywords)

(***************************************************************************)
(* Reading metadata.json back                                              *)
(***************************************************************************)
Positions(s) == [k \in 1..Len(s) |-> k]

ContinuationBytes == {"xA9", "x82", "xAC"}

\* The character that starts at byte j of b ("?" for bytes that are no
\* UTF-8 encoding of a character of the model).
Utf8CharAt(b, j) ==
    IF b[j] = "xC3"
    THEN IF HasAt(b, j, <<"xC3", "xA9">>) THEN EAcute ELSE "?"
    ELSE IF b[j] = "xE2"
    THEN IF HasAt(b, j, <<"xE2", "x82", "xAC">>) THEN EuroSign ELSE "?"
    ELSE b[j]

\* open(json_path, encoding='utf-8').read()
Utf8Decode(b) ==
    LET leads == SelectSeq(Positions(b), LAMBDA j : b[j] \notin ContinuationBytes)
    IN  [k \in 1..Len(leads) |-> Utf8CharAt(b, leads[k])]

ControlChars == {"\n", "\r", "\t", StartOfHeading}

\* One step of a JSON scanner: "out" outside strings, "str" inside a
\* string, "esc" after a backslash, "u4".."u1" with as many hexadecimal
\* digits of a \u escape to come, "bad" after an error.
LexStep(q, c) ==
    IF q = "out" THEN (IF c = Quote THEN "str" ELSE "out")
    ELSE IF q = "str"
    THEN (IF c = Quote THEN "out"
          ELSE IF c = Backslash THEN "esc"
          ELSE IF c \in ControlChars THEN "bad"
          ELSE "str")
    ELSE IF q = "esc"
    THEN (IF c = "u" THEN "u4"
          ELSE IF c \in {Quote, Backslash, "/", "b", "f", "n", "r", "t"} THEN "str"
          ELSE "bad")
    ELSE IF q = "u4" THEN "u3"
    ELSE IF q = "u3" THEN "u2"
    ELSE IF q = "u2" THEN "u1"
    ELSE IF q = "u1" THEN "str"
    ELSE "bad"

\* The scanner's state before each of the positions lo..hi of s, entered in
\* state q.
RECURSIVE LexTrace(_, _, _, _)
LexTrace(s, lo, hi, q) ==
    IF lo > hi THEN <<>>
    ELSE IF lo = hi THEN <<q>>
    ELSE LET mid  == (lo + hi) \div 2
             left == LexTrace(s, lo, mid, q)
         IN  left \o LexTrace(s, mid + 1, hi, LexStep(left[Len(left)], s[mid]))

\* The character an escape sequence ending at position j of s stands for.
Unescaped(s, q, j) ==
    IF q = "str" THEN s[j]
    ELSE IF q = "esc"
    THEN (IF s[j] = "n" THEN "\n"
          ELSE IF s[j] = "r" THEN "\r"
          ELSE IF s[j] = "t" THEN "\t"
          ELSE s[j])
    ELSE IF SubSeq(s, j - 3, j) = <<"0", "0", "0", "1">> THEN StartOfHeading
    ELSE IF SubSeq(s, j - 3, j) = <<"0", "0", "e", "9">> THEN EAcute
    ELSE IF SubSeq(s, j - 3, j) = <<"2", "0", "a", "c">> THEN EuroSign
    ELSE "?"

\* The value of the string literal whose quotes stand at positions lo and hi.
StringValue(s, trace, lo, hi) ==
    LET ends == SelectSeq([k \in 1..(hi - lo - 1) |-> lo + k],
                          LAMBDA j : \/ trace[j] = "str" /\ s[j] # Backslash
                                     \/ trace[j] = "esc" /\ s[j] # "u"
                                     \/ trace[j] = "u1")
    IN  [k \in 1..Len(ends) |-> Unescaped(s, trace[ends[k]], ends[k])]

\* The tokens of a JSON text: its punctuation and its string literals, in
\* order; bad is set when the text has anything else outside its strings or
\* an error inside one.
Tokens(s) ==
    LET trace  == LexTrace(s, 1, Len(s), "out")
        heads  == SelectSeq(Positions(s),
                            LAMBDA j : trace[j] = "out" /\ s[j] \notin Whitespace)
        closes == SelectSeq(Positions(s),
                            LAMBDA j : trace[j] = "str" /\ s[j] = Quote)
        opens  == SelectSeq(heads, LAMBDA j : s[j] = Quote)
    IN  [bad     |-> \/ \E j \in 1..Len(s) : LexStep(trace[j], s[j]) = "bad"
                     \/ Len(s) > 0 /\ LexStep(trace[Len(s)], s[Len(s)]) # "out"
                     \/ \E k \in 1..Len(heads) :
                           s[heads[k]] \notin {"[", "]", "{", "}", ":", ",", Quote},
         punct   |-> [k \in 1..Len(heads) |-> s[heads[k]]],
         strings |-> [k \in 1..Min({Len(opens), Len(closes)}) |->
                         StringValue(s, trace, opens[k], closes[k])]]

ParseFailure == [ok |-> FALSE, value |-> <<>>, i |-> 0, k |-> 0]

\* The members of an object from token i on, string k being the next string
\* literal; an object is the sequence of its members.
RECURSIVE ParseMembers(_, _, _, _)
ParseMembers(t, i, k, acc) ==
    IF i + 2 > Len(t.punct) \/ k + 1 > Len(t.strings) THEN ParseFailure
    ELSE IF t.punct[i] # Quote \/ t.punct[i + 1] # ":" \/ t.punct[i + 2] # Quote
    THEN ParseFailure
    ELSE LET more == Append(acc, [key |-> t.strings[k], value |-> t.strings[k + 1]])
         IN  IF i + 3 > Len(t.punct) THEN ParseFailure
             ELSE IF t.punct[i + 3] = "}"
             THEN [ok |-> TRUE, value |-> more, i |-> i + 4, k |-> k + 2]
             ELSE IF t.punct[i + 3] = ","
             THEN ParseMembers(t, i + 4, k + 2, more)
             ELSE ParseFailure

ParseObject(t, i, k) ==
    IF i + 1 > Len(t.punct) \/ t.punct[i] # "{" THEN ParseFailure
    ELSE IF t.punct[i + 1] = "}"
    THEN [ok |-> TRUE, value |-> <<>>, i |-> i + 2, k |-> k]
    ELSE ParseMembers(t, i + 1, k, <<>>)

RECURSIVE ParseElements(_, _, _, _)
ParseElements(t, i, k, acc) ==
    LET obj == ParseObject(t, i, k)
    IN  IF ~obj.ok \/ obj.i > Len(t.punct) THEN ParseFailure
        ELSE IF t.punct[obj.i] = "]"
        THEN [ok |-> TRUE, value |-> Append(acc, obj.value),
              i |-> obj.i + 1, k |-> obj.k]
        ELSE IF t.punct[obj.i] = ","
        THEN ParseElements(t, obj.i + 1, obj.k, Append(acc, obj.value))
        ELSE ParseFailure

\* json.load on the bytes of a file that holds an array of objects with
\* string members.
json_load(bytes) ==
    LET t == Tokens(Utf8Decode(bytes))
        parsed == IF Len(t.punct) < 2 \/ t.punct[1] # "[" THEN ParseFailure
                  ELSE IF t.punct[2] = "]"
                  THEN [ok |-> TRUE, value |-> <<>>, i |-> 3, k |-> 1]
                  ELSE ParseElements(t, 2, 1, <<>>)
    IN  [ok    |-> ~t.bad /\ parsed.ok /\ parsed.i = Len(t.punct) + 1,
         value |-> parsed.value]

\* The object json.dump writes for a record: its members in insertion order.
Members(rec) ==
    [k \in 1..Len(Fields) |-> [key |-> Fields[k].key, value |-> rec[Fields[k].name]]]

\* C21: parsing metadata.json back yields as many objects as the run has
\* records, in the order of the records, each with the members title,
\* page_number, authors, abstract, file_path, keywords and email of its
\* record, character for character, characters outside ASCII included.
C21_JsonRoundTrip ==
    written =>
        LET parsed == json_load(metadata_json)
        IN  /\ parsed.ok
            /\ Len(parsed.value) = Len(output)
            /\ \A i \in 1..Len(output) : parsed.value[i] = Members(output[i])

\* A run whose file holds two records, one of them with characters outside
\* ASCII in its title and a control character and quotes in its keywords,
\* the other one with quotes, a tab and backslashes in its title.
C21_Witness ==
    /\ written
    /\ Len(output) = 2
    /\ \E k \in 1..Len(output[1].title) : output[1].title[k] = EuroSign
    /\ \E k \in 1..Len(output[1].keywords) : output[1].keywords[k] = StartOfHeading
    /\ \E k \in 1..Len(output[1].keywords) : output[1].keywords[k] = Quote
    /\ \E k \in 1..Len(output[2].title) : output[2].title[k] = Backslash
    /\ \E k \in 1..Len(metadata_json) : metadata_json[k] = "xAC"

\* The records no finished download has written a whole file for: those
\* without a link and those whose download failed or has not ended.
WithoutFile(i) == \A t \in TasksOf(i) : ~result[t].success

\* C22: only the file of a successful download is passed to the miner: every
\* file mined belongs to a task that ended in success and has been handled,
\* and a record without a link or with a failed download is never mined and
\* has the empty string as keywords and as email, also in metadata.json.
C22_OnlySuccessfulMined ==
    /\ \A k \in 1..Len(mined) :
          \E t \in TasksOf(mined[k].idx) :
              /\ t \in processed /\ result[t].success
              /\ mined[k].path = result[t].path
    /\ Correlated =>
          \A i \in 1..Len(metadata) :
              (~HasLink(article[i]) \/ WithoutFile(i)) =>
                  /\ \A k \in 1..Len(mined) : mined[k].idx # i
                  /\ metadata[i].keywords = EmptyStr /\ metadata[i].email = EmptyStr
                  /\ written =>
                        output[i].keywords = EmptyStr /\ output[i].email = EmptyStr

\* C22 witness: metadata.json is written for three records: the first one
\* has no link, the download of another one failed, and the third one was
\* mined and has keywords.
C22_Witness ==
    /\ written /\ Len(output) = 3 /\ Len(mined) = 1
    /\ ~HasLink(article[1]) /\ TasksOf(1) = {}
    /\ \E i, j \in 2..3 :
          /\ \E t \in TasksOf(i) : status[t] = "done" /\ ~result[t].success
          /\ output[i].keywords = EmptyStr
          /\ mined[1].idx = j /\ output[j].keywords # EmptyStr

\* The tasks whose download failed while the body was written to the file.
FailedWriting(t) ==
    status[t] = "done" /\ response[t].status = "ok" /\ response[t].io # "ok"

\* The path download_file opened for writing (lines 78-88).
FileOpened(t) ==
    RewritePath(download_tasks[t].save_path,
                ResolveExtension(response[t].content_type, download_tasks[t].url))

\* C23: a download that fails after the file was opened for writing ends in
\* a failure outcome whose path is the path of that partial file, with the
\* extension resolved for it, while file_path of the record keeps the
\* provisional value, also in metadata.json.
C23_FailurePathIsPartialFile ==
    \A t \in Tasks :
        FailedWriting(t) =>
            LET idx == download_tasks[t].idx
            IN  /\ ~result[t].success
                /\ result[t].path = FileOpened(t)
                /\ metadata[idx].file_path = ProvisionalPath(idx)
                /\ written => output[idx].file_path = ProvisionalPath(idx)

\* C23 witness: metadata.json is written after a download to a provisional
\* .pdf path failed while its .docx file was written: the outcome names the
\* .docx file, the record the .pdf path.
C23_Witness ==
    /\ written
    /\ \E t \in Tasks :
          /\ FailedWriting(t) /\ t \in processed
          /\ SplitExt(download_tasks[t].save_path)[2] = <<".">> \o PdfExt
          /\ SplitExt(result[t].path)[2] = <<".">> \o DocxExt
          /\ output[download_tasks[t].idx].file_path = download_tasks[t].save_path

\* The position in s where the block of pattern p ends: the position of the
\* terminator that follows group 1.
BlockEnd(p, s) ==
    LET starts == {i \in 1..Len(s) : Intro(p, s, i) > 0
                                      /\ \E q \in (Intro(p, s, i) + 1)..Len(s) :
                                            Terminator(s, q)}
    IN  Intro(p, s, Min(starts)) + Len(BlockFor(p, s).group)

IsLowerCase(c) == \E k \in 1..Len(LowerCase) : LowerCase[k] = c

\* C24: the keyword block of a mined text ends at a blank line, at a line
\* break followed by a capital letter or at the start of an abstract or
\* introduction section; it does not end at a line break whose next line
\* starts with a lower-case letter, over which the block continues.
C24_BlockContinuesOverLowerCaseLine ==
    \A k \in 1..Len(mined) :
        LET text  == mined[k].doc.text
            lower == Lower(text)
            hits  == {p \in 1..3 : BlockFor(p, lower).found}
        IN  (mined[k].doc.fault \in {"none", "report"} /\ hits # {}) =>
                LET q == BlockEnd(Min(hits), lower)
                IN  \/ HasAt(text, q, <<"\n", "\n">>)
                    \/ HasAt(lower, q, NlAbstractLit)
                    \/ HasAt(lower, q, NlIntroductionLit)
                    \/ q + 1 <= Len(text) /\ ~IsLowerCase(text[q + 1])

\* The position in emails of the first match equal to e but for letter case
\* (0 when there is none).
FirstMatch(emails, e) ==
    LET same == {j \in 1..Len(emails) : Lower(emails[j]) = Lower(e)}
    IN  IF same = {} THEN 0 ELSE Min(same)

\* C25: the list extract_emails_from_text returns for the matches of a mined
\* text has every match exactly once up to letter case, no two entries equal
\* when compared case-insensitively, every entry in the spelling of its
\* first occurrence and the entries in the order of their first occurrence;
\* the record receives that list.
C25_EmailsUniqueFirstSeen ==
    \A k \in 1..Len(mined) :
        mined[k].doc.fault \in {"none", "report"} =>
            LET emails == mined[k].doc.emails
                list   == extract_emails_from_text(emails)
            IN  /\ \A j \in 1..Len(emails) :
                      Cardinality({n \in 1..Len(list) :
                                      Lower(list[n]) = Lower(emails[j])}) = 1
                /\ \A m, n \in 1..Len(list) :
                      m # n => Lower(list[m]) # Lower(list[n])
                /\ \A n \in 1..Len(list) :
                      /\ FirstMatch(emails, list[n]) > 0
                      /\ list[n] = emails[FirstMatch(emails, list[n])]
                /\ \A m, n \in 1..Len(list) :
                      m < n => FirstMatch(emails, list[m]) < FirstMatch(emails, list[n])
                /\ metadata[mined[k].idx].email = JoinCommaSpace(list)

\* C25 witness: a mined text where an address comes first in capitals, then
\* in lower case after another address, and both come again: the record
\* holds the first spelling of each, in the order of the text.
C25_Witness ==
    \E k \in 1..Len(mined) :
        /\ mined[k].doc.fault = "none"
        /\ mined[k].doc.emails =
              <<EmailUpper, EmailOther, EmailLower, EmailOther, EmailUpper>>
        /\ metadata[mined[k].idx].email = JoinCommaSpace(<<EmailUpper, EmailOther>>)

\* An absolute URL: a scheme of letters, then "://".
IsAbsoluteUrl(href) ==
    \E k \in 2..Len(href) :
        /\ HasAt(href, k, <<":", "/", "/">>)
        /\ \A j \in 1..(k - 1) : IsLetter(href[j])

\* C26: the URL of a task is the href of its record when the href is an
\* absolute URL; an href with a leading "/" is appended to scheme and host of
\* the page URL; any other href is appended, after a "/", to the page URL
\* without its last path segment.
C26_RelativeHrefResolved ==
    \A t \in Tasks :
        LET href == article[download_tasks[t].idx].download_link
        IN  download_tasks[t].url =
               IF IsAbsoluteUrl(href) THEN href
               ELSE IF StartsWith(href, <<"/">>)
               THEN SlashJoinFirst(PageUrl, 3) \o href
               ELSE SlashJoinButLast(PageUrl) \o <<"/">> \o href

\* The k-th smallest element of a set of positions.
Nth(S, k) == CHOOSE j \in S : Cardinality({i \in S : i <= j}) = k

\* The elements of seq at the positions in S, in the order of seq.
Kept(seq, S) == [k \in 1..Cardinality(S) |-> seq[Nth(S, k)]]

\* C27: of the fragments of the fetched page, extraction keeps the topics
\* with text, in document order, and drops those with empty text; it keeps
\* every fragment of the types, pages, authors and downloads, empty ones
\* included, each at its position; it keeps the abstracts whose id and value
\* are both non-empty, in document order, and drops the others.
C27_ExtractionFilters ==
    pc # "start" =>
        /\ all_fields.topics =
              Kept(page.topics, {k \in 1..Len(page.topics) : page.topics[k] # EmptyStr})
        /\ all_fields.types = page.types
        /\ all_fields.pages = page.pages
        /\ all_fields.authors = page.authors
        /\ all_fields.downloads = page.downloads
        /\ all_fields.abstracts =
              Kept(page.abstracts,
                   {k \in 1..Len(page.abstracts) :
                       page.abstracts[k].id # EmptyStr /\ page.abstracts[k].value # EmptyStr})

\* C27 witness: a fetched page whose first topic fragment is empty and is
\* dropped, with an empty article type and a download container without a
\* link kept at the second position, and an abstract without id dropped.
C27_Witness ==
    /\ pc = "extracted"
    /\ Len(page.topics) = 3 /\ page.topics[1] = EmptyStr
    /\ all_fields.topics = <<SoilTitle, NitrogenTitle>>
    /\ Len(all_fields.types) = 2 /\ all_fields.types[2] = EmptyStr
    /\ Len(all_fields.downloads) = 2 /\ all_fields.downloads[2] = EmptyStr
    /\ Len(page.abstracts) = 2 /\ page.abstracts[2].id = EmptyStr
    /\ Len(all_fields.abstracts) = 1

(***************************************************************************)
(* The fetch client                                                        *)
(***************************************************************************)
\* C28 as claimed: a request is attempted at most 3 times in total; it is
\* sent again only after a connection reset or a response with status 429,
\* 500, 502, 503 or 504, and only when its method is HEAD, GET or OPTIONS;
\* when the attempts are used up it ends in failure.
C28_AtMostThreeAttempts ==
    /\ request.attempts <= 3
    /\ (request.phase = "ready" /\ request.attempts > 0) =>
          /\ request.last \in {ConnectionReset, 429, 500, 502, 503, 504}
          /\ request.method \in {"HEAD", "GET", "OPTIONS"}
    /\ (request.phase = "returned") =>
          ~(request.attempts = 3 /\ request.last \in {429, 500, 502, 503, 504}
               /\ request.method \in {"HEAD", "GET", "OPTIONS"})

\* C28, amended: a request is attempted at most 4 times in total, the first
\* attempt and 3 retries; it is sent again only after a connection reset or
\* a response with status 429, 500, 502, 503 or 504, and only when its method
\* is HEAD, GET or OPTIONS; a request whose fourth attempt ends that way
\* ends in failure, and no request fails for lack of retries before its
\* fourth attempt.
C28_ThreeRetries ==
    /\ [](/\ request.attempts <= 4
          /\ (request.phase = "ready" /\ request.attempts > 0) =>
                /\ request.last \in {ConnectionReset, 429, 500, 502, 503, 504}
                /\ request.method \in {"HEAD", "GET", "OPTIONS"}
          /\ (request.phase = "failed" /\ request.last # ConnectionReset) =>
                request.attempts = 4
          /\ (request.phase = "failed" /\ request.method \in {"HEAD", "GET", "OPTIONS"}) =>
                request.attempts = 4
          /\ request.phase = "returned" =>
                \/ request.last \notin {ConnectionReset, 429, 500, 502, 503, 504}
                \/ request.method \notin {"HEAD", "GET", "OPTIONS"})
    /\ (/\ request.attempts = 4
        /\ request.last \in {ConnectionReset, 429, 500, 502, 503, 504}
        /\ request.method \in {"HEAD", "GET", "OPTIONS"}) ~> (request.phase = "failed")

\* C28 witness: a GET request has failed after four attempts, the last one
\* answered with status 503.
C28_Witness ==
    /\ request.method = "GET" /\ request.phase = "failed"
    /\ request.attempts = 4 /\ request.last = 503 /\ request.total = 0

(***************************************************************************)
(* Files of the run and their records                                      *)
(***************************************************************************)
\* C29: the path of every successful download ends in .pdf or .docx, and so
\* does every path handed to the miner: the dispatch of
\* process_file_for_metadata selects the PDF or the DOCX extractor for it
\* and never takes the branch for an unsupported file type.
C29_MinedFilesSupported ==
    /\ \A t \in Tasks :
          (status[t] = "done" /\ result[t].success) =>
              SplitExt(result[t].path)[2] \in {<<".">> \o PdfExt, <<".">> \o DocxExt}
    /\ \A k \in 1..Len(successful_downloads) :
          Extractor(successful_downloads[k].path) # "unsupported"
    /\ \A k \in 1..Len(mined) :
          Extractor(mined[k].path) \in {"extract_text_from_pdf", "extract_text_from_docx"}

\* C29 witness: a run that mined a .docx file, resolved from the content-type
\* application/msword against a URL ending in .pdf, and a .pdf file.
C29_Witness ==
    \E j, k \in 1..Len(mined) :
        /\ Extractor(mined[j].path) = "extract_text_from_docx"
        /\ Extractor(mined[k].path) = "extract_text_from_pdf"
        /\ \E t \in Tasks :
              /\ result[t].success /\ result[t].path = mined[j].path
              /\ response[t].content_type = CtMsword

\* The fields of a record the correlation loop fixes.
Correlation(rec) ==
    [title |-> rec.title, page_number |-> rec.page_number,
     authors |-> rec.authors, abstract |-> rec.abstract]

\* C30: every step after the correlation leaves title, page_number, authors
\* and abstract of every record as they are; a step that handles the outcome
\* of a download changes at most file_path, and of the record of that task
\* only; a step that mines a file changes at most keywords and email, and of
\* the record of that file only; no other step changes a record.
C30_LaterPhasesKeepCorrelation ==
    [][ Correlated =>
          /\ Len(metadata') = Len(metadata)
          /\ \A i \in 1..Len(metadata) :
                /\ Correlation(metadata'[i]) = Correlation(metadata[i])
                /\ metadata'[i].file_path # metadata[i].file_path =>
                      /\ pc = "collect"
                      /\ \E t \in processed' \ processed :
                            /\ download_tasks[t].idx = i
                            /\ result[t].success
                            /\ metadata'[i].file_path = result[t].path
                      /\ metadata'[i].keywords = metadata[i].keywords
                      /\ metadata'[i].email = metadata[i].email
                /\ (\/ metadata'[i].keywords # metadata[i].keywords
                    \/ metadata'[i].email # metadata[i].email) =>
                      /\ pc = "mine"
                      /\ Len(mined') = Len(mined) + 1
                      /\ mined'[Len(mined')].idx = i
                      /\ metadata'[i].file_path = metadata[i].file_path
          /\ written' => \A i \in 1..Len(metadata) :
                Correlation(output'[i]) = Correlation(metadata[i])
      ]_vars

\* C30 witness: metadata.json is written with a record that has the path of
\* its downloaded file and the keywords mined from it next to a record that
\* was not touched after the correlation.
C30_Witness ==
    /\ written /\ Len(output) >= 2
    /\ \E i, j \in 1..Len(output) :
          /\ output[i].file_path # ProvisionalPath(i)
          /\ output[i].keywords # EmptyStr /\ output[i].email # EmptyStr
          /\ output[j] = RecordsOf(volume_dir, article)[j]
          /\ Correlation(output[i]) = Correlation(RecordsOf(volume_dir, article)[i])

====
